---------------------------- MODULE Spec2Model ----------------------------
(***************************************************************************)
(* Model of git-tag-info-action's "latest" resolution: the semver          *)
(* comparator (src/src/semver.ts), the format matcher                      *)
(* (src/src/format-matcher.ts), the resolver (src/src/tag-resolver.ts),    *)
(* the format parser (src/dist/format-parser.js), the repository detector  *)
(* (src/src/repo-detector.ts) and the entry point run (index.ts).          *)
(*                                                                         *)
(* A JavaScript string is modelled as a sequence of one-character strings, *)
(* so that regular expressions, prefix extraction, string comparison and   *)
(* message construction are computed character by character.               *)
(***************************************************************************)
EXTENDS Integers, Sequences, FiniteSets, TLC

(***************************************************************************)
(* Characters and strings                                                  *)
(***************************************************************************)

\* The printable ASCII characters in code-unit order (32 .. 126); the grave
\* accent (96) is written <grave>.
Ascii ==
  <<" ","!","\"","#","$","%","&","'","(",")","*","+",",","-",".","/",
    "0","1","2","3","4","5","6","7","8","9",":",";","<","=",">","?","@",
    "A","B","C","D","E","F","G","H","I","J","K","L","M","N","O","P","Q",
    "R","S","T","U","V","W","X","Y","Z","[","\\","]","^","_","<grave>",
    "a","b","c","d","e","f","g","h","i","j","k","l","m","n","o","p","q",
    "r","s","t","u","v","w","x","y","z","{","|","}","~">>

AsciiSet ==
  {" ","!","\"","#","$","%","&","'","(",")","*","+",",","-",".","/",
   "0","1","2","3","4","5","6","7","8","9",":",";","<","=",">","?","@",
   "A","B","C","D","E","F","G","H","I","J","K","L","M","N","O","P","Q",
   "R","S","T","U","V","W","X","Y","Z","[","\\","]","^","_","<grave>",
   "a","b","c","d","e","f","g","h","i","j","k","l","m","n","o","p","q",
   "r","s","t","u","v","w","x","y","z","{","|","}","~"}

\* The UTF-16 code unit of each character of Ascii: Ascii[k] has code 31 + k.
CharCodes ==
  " " :> 32 @@ "!" :> 33 @@ "\"" :> 34 @@ "#" :> 35 @@ "$" :> 36 @@ "%" :> 37 @@
  "&" :> 38 @@ "'" :> 39 @@ "(" :> 40 @@ ")" :> 41 @@ "*" :> 42 @@ "+" :> 43 @@
  "," :> 44 @@ "-" :> 45 @@ "." :> 46 @@ "/" :> 47 @@ "0" :> 48 @@ "1" :> 49 @@
  "2" :> 50 @@ "3" :> 51 @@ "4" :> 52 @@ "5" :> 53 @@ "6" :> 54 @@ "7" :> 55 @@
  "8" :> 56 @@ "9" :> 57 @@ ":" :> 58 @@ ";" :> 59 @@ "<" :> 60 @@ "=" :> 61 @@
  ">" :> 62 @@ "?" :> 63 @@ "@" :> 64 @@ "A" :> 65 @@ "B" :> 66 @@ "C" :> 67 @@
  "D" :> 68 @@ "E" :> 69 @@ "F" :> 70 @@ "G" :> 71 @@ "H" :> 72 @@ "I" :> 73 @@
  "J" :> 74 @@ "K" :> 75 @@ "L" :> 76 @@ "M" :> 77 @@ "N" :> 78 @@ "O" :> 79 @@
  "P" :> 80 @@ "Q" :> 81 @@ "R" :> 82 @@ "S" :> 83 @@ "T" :> 84 @@ "U" :> 85 @@
  "V" :> 86 @@ "W" :> 87 @@ "X" :> 88 @@ "Y" :> 89 @@ "Z" :> 90 @@ "[" :> 91 @@
  "\\" :> 92 @@ "]" :> 93 @@ "^" :> 94 @@ "_" :> 95 @@ "<grave>" :> 96 @@ "a" :> 97 @@
  "b" :> 98 @@ "c" :> 99 @@ "d" :> 100 @@ "e" :> 101 @@ "f" :> 102 @@ "g" :> 103 @@
  "h" :> 104 @@ "i" :> 105 @@ "j" :> 106 @@ "k" :> 107 @@ "l" :> 108 @@ "m" :> 109 @@
  "n" :> 110 @@ "o" :> 111 @@ "p" :> 112 @@ "q" :> 113 @@ "r" :> 114 @@ "s" :> 115 @@
  "t" :> 116 @@ "u" :> 117 @@ "v" :> 118 @@ "w" :> 119 @@ "x" :> 120 @@ "y" :> 121 @@
  "z" :> 122 @@ "{" :> 123 @@ "|" :> 124 @@ "}" :> 125 @@ "~" :> 126

\* String.prototype.charCodeAt for one character.
charCode(c) == CharCodes[c]

\* The characters lo..hi of a class range such as a-z.
CharRange(lo, hi) == { Ascii[k] : k \in (charCode(lo) - 31)..(charCode(hi) - 31) }

Digits == {"0","1","2","3","4","5","6","7","8","9"}
Lower == {"a","b","c","d","e","f","g","h","i","j","k","l","m","n","o","p","q",
          "r","s","t","u","v","w","x","y","z"}
Upper == {"A","B","C","D","E","F","G","H","I","J","K","L","M","N","O","P","Q",
          "R","S","T","U","V","W","X","Y","Z"}
Alnum == Lower \cup Upper \cup Digits
WordChars == Alnum \cup {"_"}

\* s.slice(n)
Drop(s, n) == SubSeq(s, n + 1, Len(s))

\* s.slice(0, n)
Take(s, n) == SubSeq(s, 1, n)

\* JavaScript's a < b on strings: comparison by UTF-16 code units.
RECURSIVE StrLess(_, _)
StrLess(a, b) ==
  IF b = <<>> THEN FALSE
  ELSE IF a = <<>> THEN TRUE
  ELSE IF a[1] = b[1] THEN StrLess(Tail(a), Tail(b))
  ELSE charCode(a[1]) < charCode(b[1])

\* s.startsWith(p), s.endsWith(p), s.includes(p)
startsWith(s, p) == Len(p) <= Len(s) /\ Take(s, Len(p)) = p
endsWith(s, p) == Len(p) <= Len(s) /\ Drop(s, Len(s) - Len(p)) = p
includes(s, p) == \E i \in 0..(Len(s) - Len(p)) : SubSeq(s, i + 1, i + Len(p)) = p

\* Length of the longest leading run of s made of characters of set cls.
RECURSIVE RunLen(_, _)
RunLen(s, cls) ==
  IF s # <<>> /\ s[1] \in cls THEN 1 + RunLen(Tail(s), cls) ELSE 0

\* parseInt(digits, 10) on a non-empty run of decimal digits.
RECURSIVE parseInt(_)
parseInt(ds) ==
  IF ds = <<>> THEN 0
  ELSE parseInt(Take(ds, Len(ds) - 1)) * 10 + (charCode(ds[Len(ds)]) - 48)

\* String(n) for a natural number n.
RECURSIVE numToStr(_)
numToStr(n) ==
  IF n < 10 THEN <<Ascii[17 + n]>>
  ELSE numToStr(n \div 10) \o <<Ascii[17 + (n % 10)]>>

\* parts.join(sep)
RECURSIVE join(_, _)
join(parts, sep) ==
  IF parts = <<>> THEN <<>>
  ELSE IF Len(parts) = 1 THEN parts[1]
  ELSE parts[1] \o sep \o join(Tail(parts), sep)

\* The elements of a sequence.
Range(arr) == { arr[i] : i \in 1..Len(arr) }

(***************************************************************************)
(* src/src/semver.ts                                                       *)
(***************************************************************************)

\* The value of an absent optional capture group / of a null result.
Undefined == <<>>
Null == [null |-> TRUE]

SemverIdChars == Alnum \cup {".", "-"}

\* Length of the digits of a ".digits" group at the head of str, 0 if none.
dotDigits(str) ==
  IF str # <<>> /\ str[1] = "." THEN RunLen(Tail(str), Digits) ELSE 0

\* Length of the identifier of an optional "-identifier" or "+identifier"
\* group (mark is "-" or "+") at the head of str, 0 if there is none.  The
\* class [0-9A-Za-z.-] holds neither "+" nor the end, so the run is maximal.
optionalGroup(str, mark) ==
  IF str # <<>> /\ str[1] = mark THEN RunLen(Tail(str), SemverIdChars) ELSE 0

\* The match of semverRegex on cleaned, whose groups have the lengths n1, n2,
\* n3 (the numbers), np (the prerelease) and nb (the build), 0 for a group
\* that is not there: a match when the numbers are there and the groups end
\* the string.
semverMatch(cleaned, n1, n2, n3, np, nb) ==
  LET preAt == n1 + n2 + n3 + 3
      buildAt == preAt + (IF np > 0 THEN np + 1 ELSE 0)
      end == buildAt + (IF nb > 0 THEN nb + 1 ELSE 0)
  IN IF n1 > 0 /\ n2 > 0 /\ n3 > 0 /\ end = Len(cleaned) + 1
     THEN [ major |-> parseInt(SubSeq(cleaned, 1, n1)),
            minor |-> parseInt(SubSeq(cleaned, n1 + 2, n1 + n2 + 1)),
            patch |-> parseInt(SubSeq(cleaned, n1 + n2 + 3, n1 + n2 + n3 + 2)),
            prerelease |-> IF np > 0 THEN SubSeq(cleaned, preAt + 1, preAt + np)
                           ELSE Undefined,
            build |-> IF nb > 0 THEN SubSeq(cleaned, buildAt + 1, buildAt + nb)
                      ELSE Undefined ]
     ELSE Null

semverFromBuild(cleaned, n1, n2, n3, np) ==
  semverMatch(cleaned, n1, n2, n3, np,
              optionalGroup(Drop(cleaned, n1 + n2 + n3 + 2 + (IF np > 0 THEN np + 1 ELSE 0)),
                            "+"))

semverFromPrerelease(cleaned, n1, n2, n3) ==
  semverFromBuild(cleaned, n1, n2, n3, optionalGroup(Drop(cleaned, n1 + n2 + n3 + 2), "-"))

semverFromPatch(cleaned, n1, n2) ==
  semverFromPrerelease(cleaned, n1, n2, dotDigits(Drop(cleaned, n1 + n2 + 1)))

semverFromMinor(cleaned, n1) ==
  semverFromPatch(cleaned, n1, dotDigits(Drop(cleaned, n1)))

\* parseSemver: strip one leading v/V, then match
\* /^(\d+)\.(\d+)\.(\d+)(?:-([0-9A-Za-z.-]+))?(?:\+([0-9A-Za-z.-]+))?$/
\* group by group, each group greedy (no group can give a character back to
\* the next: the separators are in none of the classes before them).
parseSemverCleaned(cleaned) == semverFromMinor(cleaned, RunLen(cleaned, Digits))

parseSemver(tagName) ==
  CHOOSE result \in
    { parseSemverCleaned(cleaned) :
        cleaned \in { IF tagName # <<>> /\ tagName[1] \in {"v", "V"}
                      THEN Tail(tagName) ELSE tagName } } : TRUE

isSemver(tagName) == parseSemver(tagName) # Null

\* A captured group is truthy exactly when it is present (a capture is never "").
Truthy(str) == str # Undefined

\* compareParsed without the "return 0" of two equal prereleases.
compareParsedUnequalPrereleases(semver1, semver2) ==
  IF semver1 = Null \/ semver2 = Null THEN 0
  ELSE IF semver1.major # semver2.major
       THEN (IF semver1.major > semver2.major THEN 1 ELSE -1)
  ELSE IF semver1.minor # semver2.minor
       THEN (IF semver1.minor > semver2.minor THEN 1 ELSE -1)
  ELSE IF semver1.patch # semver2.patch
       THEN (IF semver1.patch > semver2.patch THEN 1 ELSE -1)
  ELSE IF Truthy(semver1.prerelease) /\ Truthy(semver2.prerelease)
       THEN (IF StrLess(semver1.prerelease, semver2.prerelease) THEN -1 ELSE 1)
  ELSE IF Truthy(semver1.prerelease) /\ ~Truthy(semver2.prerelease) THEN -1
  ELSE IF ~Truthy(semver1.prerelease) /\ Truthy(semver2.prerelease) THEN 1
  ELSE 0

\* compareParsed in which a version with build metadata outranks one without.
compareParsedBuildBreaksTies(semver1, semver2) ==
  IF semver1 = Null \/ semver2 = Null THEN 0
  ELSE IF semver1.major # semver2.major
       THEN (IF semver1.major > semver2.major THEN 1 ELSE -1)
  ELSE IF semver1.minor # semver2.minor
       THEN (IF semver1.minor > semver2.minor THEN 1 ELSE -1)
  ELSE IF semver1.patch # semver2.patch
       THEN (IF semver1.patch > semver2.patch THEN 1 ELSE -1)
  ELSE IF Truthy(semver1.prerelease) /\ Truthy(semver2.prerelease)
       THEN (IF StrLess(semver1.prerelease, semver2.prerelease) THEN -1
             ELSE IF StrLess(semver2.prerelease, semver1.prerelease) THEN 1
             ELSE 0)
  ELSE IF Truthy(semver1.prerelease) /\ ~Truthy(semver2.prerelease) THEN -1
  ELSE IF ~Truthy(semver1.prerelease) /\ Truthy(semver2.prerelease) THEN 1
  ELSE IF Truthy(semver1.build) /\ ~Truthy(semver2.build) THEN 1
  ELSE IF ~Truthy(semver1.build) /\ Truthy(semver2.build) THEN -1
  ELSE 0

\* compareParsed in which a prerelease and the release of the same numbers
\* compare equal.
compareParsedPrereleaseOptional(semver1, semver2) ==
  IF semver1 = Null \/ semver2 = Null THEN 0
  ELSE IF semver1.major # semver2.major
       THEN (IF semver1.major > semver2.major THEN 1 ELSE -1)
  ELSE IF semver1.minor # semver2.minor
       THEN (IF semver1.minor > semver2.minor THEN 1 ELSE -1)
  ELSE IF semver1.patch # semver2.patch
       THEN (IF semver1.patch > semver2.patch THEN 1 ELSE -1)
  ELSE IF Truthy(semver1.prerelease) /\ Truthy(semver2.prerelease)
       THEN (IF StrLess(semver1.prerelease, semver2.prerelease) THEN -1
             ELSE IF StrLess(semver2.prerelease, semver1.prerelease) THEN 1
             ELSE 0)
  ELSE 0

\* The body of compareSemver on the two parse results.
compareParsed(semver1, semver2) ==
  IF semver1 = Null \/ semver2 = Null THEN 0
  ELSE IF semver1.major # semver2.major
       THEN (IF semver1.major > semver2.major THEN 1 ELSE -1)
  ELSE IF semver1.minor # semver2.minor
       THEN (IF semver1.minor > semver2.minor THEN 1 ELSE -1)
  ELSE IF semver1.patch # semver2.patch
       THEN (IF semver1.patch > semver2.patch THEN 1 ELSE -1)
  ELSE IF Truthy(semver1.prerelease) /\ Truthy(semver2.prerelease)
       THEN (IF StrLess(semver1.prerelease, semver2.prerelease) THEN -1
             ELSE IF StrLess(semver2.prerelease, semver1.prerelease) THEN 1
             ELSE 0)
  ELSE IF Truthy(semver1.prerelease) /\ ~Truthy(semver2.prerelease) THEN -1
  ELSE IF ~Truthy(semver1.prerelease) /\ Truthy(semver2.prerelease) THEN 1
  ELSE 0

\* compareSemver in which a name that is no version ranks below every version.
compareSemverUnparsedLowest(tag1, tag2) ==
  IF isSemver(tag1) = isSemver(tag2)
  THEN compareParsed(parseSemver(tag1), parseSemver(tag2))
  ELSE IF isSemver(tag1) THEN 1 ELSE -1

\* (semver1 and semver2 are computed once each, as the constants of the code.)
compareSemver(tag1, tag2) ==
  CHOOSE result \in { compareParsed(semver1, semver2) :
                        semver1 \in {parseSemver(tag1)}, semver2 \in {parseSemver(tag2)} } : TRUE

\* Array.prototype.sort is stable; for a comparator that is a preorder on the
\* list its result is the unique stable ordering, computed here by insertion:
\* x is placed after every element that the comparator does not put after it.
\* The comparator of sortTagsBySemver is (a, b) => compareSemver(b, a).
\* insertBySemver that places x before the elements it compares equal to.
RECURSIVE insertBySemverBeforeEqual(_, _)
insertBySemverBeforeEqual(sorted, x) ==
  IF sorted = <<>> THEN <<x>>
  ELSE LET last == sorted[Len(sorted)]
       IN IF compareSemver(x, last) >= 0
          THEN insertBySemverBeforeEqual(Take(sorted, Len(sorted) - 1), x) \o <<last>>
          ELSE sorted \o <<x>>

RECURSIVE insertBySemver(_, _)
insertBySemver(sorted, x) ==
  IF sorted = <<>> THEN <<x>>
  ELSE LET last == sorted[Len(sorted)]
       IN IF compareSemver(x, last) > 0
          THEN insertBySemver(Take(sorted, Len(sorted) - 1), x) \o <<last>>
          ELSE sorted \o <<x>>

\* sortTagsBySemver with the sort left out: the tags in the order given.
sortTagsBySemverUnsorted(tags) == tags

RECURSIVE sortTagsBySemver(_)
sortTagsBySemver(tags) ==
  CHOOSE result \in
    { IF copy = <<>> THEN <<>>
      ELSE insertBySemver(sortTagsBySemver(Take(copy, Len(copy) - 1)), copy[Len(copy)]) :
        copy \in {tags} } : TRUE

(***************************************************************************)
(* A regular-expression engine for the fragment of JavaScript RegExp that  *)
(* the format matcher produces and that the modelled patterns use:         *)
(* literals, escapes (\d \w \. ...), ".", character classes with ranges    *)
(* and negation, and the quantifiers * + ?, between "^" and "$".           *)
(* Groups are recognised only as far as needed to tell that a source with  *)
(* an unbalanced parenthesis does not compile.                             *)
(***************************************************************************)

\* The characters matched by the escape \e outside or inside a class.
EscapeSet(e) ==
  CASE e = "d" -> Digits
    [] e = "D" -> AsciiSet \ Digits
    [] e = "w" -> WordChars
    [] e = "W" -> AsciiSet \ WordChars
    [] e = "s" -> {" "}
    [] e = "S" -> AsciiSet \ {" "}
    [] OTHER -> {e}

\* Index of the "]" closing the class that starts at body[1], 0 if none.
RECURSIVE ClassEnd(_, _)
ClassEnd(body, i) ==
  IF i > Len(body) THEN 0
  ELSE IF body[i] = "\\" THEN ClassEnd(body, i + 2)
  ELSE IF body[i] = "]" THEN i
  ELSE ClassEnd(body, i + 1)

\* The characters listed by the inside of a class (after an optional ^).
RECURSIVE ClassSet(_)
ClassSet(body) ==
  IF body = <<>> THEN {}
  ELSE IF body[1] = "\\" /\ Len(body) >= 2
       THEN EscapeSet(body[2]) \cup ClassSet(Drop(body, 2))
  ELSE IF Len(body) >= 3 /\ body[2] = "-" /\ body[3] # "\\"
       THEN CharRange(body[1], body[3]) \cup ClassSet(Drop(body, 3))
  ELSE {body[1]} \cup ClassSet(Tail(body))

Quantifiers == {"*", "+", "?"}

\* new RegExp(src) for a source without its ^ and $ anchors: the list of
\* quantified atoms [chars, neg, q] as the record [atoms], or Null when the
\* constructor throws.  An atom matches the characters of chars, or, when
\* neg, every character but those.
RECURSIVE compileAtoms(_, _)
compileAtoms(src, acc) ==
  IF src = <<>> THEN [atoms |-> acc]
  ELSE
    LET c == src[1]
        \* the atom at the head of src: its character set and its length
        atom ==
          CASE c = "\\" ->
                 IF Len(src) < 2 THEN Null
                 ELSE [chars |-> EscapeSet(src[2]), neg |-> FALSE, len |-> 2]
            [] c = "[" ->
                 LET close == ClassEnd(src, 2)
                     neg == close > 2 /\ src[2] = "^"
                     body == SubSeq(src, IF neg THEN 3 ELSE 2, close - 1)
                 IN IF close = 0 THEN Null
                    ELSE [chars |-> ClassSet(body), neg |-> neg, len |-> close]
            [] c = "." -> [chars |-> {}, neg |-> TRUE, len |-> 1]
            [] c \in Quantifiers \cup {"(", ")"} -> Null
            [] OTHER -> [chars |-> {c}, neg |-> FALSE, len |-> 1]
    IN IF atom = Null THEN Null
       ELSE
         LET after == Drop(src, atom.len)
             q == IF after # <<>> /\ after[1] \in Quantifiers THEN after[1] ELSE "1"
             rest == IF q = "1" THEN after ELSE Tail(after)
             \* a "?" after a quantifier only makes it lazy
             rest2 == IF q # "1" /\ rest # <<>> /\ rest[1] = "?" THEN Tail(rest) ELSE rest
         IN compileAtoms(rest2, acc \o <<[chars |-> atom.chars, neg |-> atom.neg, q |-> q]>>)

\* Does the whole of str match the atom list?
RECURSIVE matchAtoms(_, _)
matchAtoms(atoms, str) ==
  IF atoms = <<>> THEN str = <<>>
  ELSE
    LET a == atoms[1]
        rest == Tail(atoms)
        one == str # <<>> /\ (str[1] \in a.chars) # a.neg
    IN CASE a.q = "1" -> one /\ matchAtoms(rest, Tail(str))
         [] a.q = "?" -> (one /\ matchAtoms(rest, Tail(str))) \/ matchAtoms(rest, str)
         [] a.q = "*" -> (one /\ matchAtoms(atoms, Tail(str))) \/ matchAtoms(rest, str)
         [] a.q = "+" -> one /\ matchAtoms(<<[a EXCEPT !.q = "*"]>> \o rest, Tail(str))

\* new RegExp(regexStr), for a source that starts with ^ and ends with $.
RegExp(regexStr) == compileAtoms(SubSeq(regexStr, 2, Len(regexStr) - 1), <<>>)

\* regex.test(str)
RegExpTest(regex, str) == matchAtoms(regex.atoms, str)

\* The regex sources the engine covers: anchored at both ends (the closing $
\* not escaped), with no alternation, no braces, no inner anchors, and no
\* balanced group.
RECURSIVE ParenUnbalanced(_, _)
ParenUnbalanced(src, depth) ==
  IF src = <<>> THEN depth # 0
  ELSE IF src[1] = "\\" THEN ParenUnbalanced(Drop(src, 2), depth)
  ELSE IF src[1] = "(" THEN ParenUnbalanced(Tail(src), depth + 1)
  ELSE IF src[1] = ")" THEN depth = 0 \/ ParenUnbalanced(Tail(src), depth - 1)
  ELSE ParenUnbalanced(Tail(src), depth)

InRegexFragment(regexStr) ==
  LET inner == SubSeq(regexStr, 2, Len(regexStr) - 1)
  IN /\ Len(regexStr) >= 2 /\ regexStr[1] = "^" /\ regexStr[Len(regexStr)] = "$"
     /\ (inner = <<>> \/ inner[Len(inner)] # "\\")
     /\ \A i \in 1..Len(inner) : inner[i] \notin {"|", "{", "}", "^", "$"}
     /\ (\A i \in 1..Len(inner) : inner[i] \notin {"(", ")"}) \/ ParenUnbalanced(inner, 0)

(***************************************************************************)
(* src/src/format-matcher.ts                                               *)
(***************************************************************************)

\* /^v?X(\.X)+$/i
isSimplePattern(format) ==
  LET body == IF format # <<>> /\ format[1] \in {"v", "V"} THEN Tail(format) ELSE format
  IN /\ Len(body) >= 3
     /\ Len(body) % 2 = 1
     /\ \A i \in 1..Len(body) :
          IF i % 2 = 1 THEN body[i] \in {"X", "x"} ELSE body[i] = "."

\* /^v?\*(\.\*)*$/i
isWildcardPattern(format) ==
  LET body == IF format # <<>> /\ format[1] \in {"v", "V"} THEN Tail(format) ELSE format
  IN /\ Len(body) >= 1
     /\ Len(body) % 2 = 1
     /\ \A i \in 1..Len(body) :
          IF i % 2 = 1 THEN body[i] = "*" ELSE body[i] = "."

\* str.replace(/c/g, to) for the characters c of set from.
RECURSIVE replaceAll(_, _, _)
replaceAll(str, from, to) ==
  IF str = <<>> THEN <<>>
  ELSE (IF str[1] \in from THEN to ELSE <<str[1]>>) \o replaceAll(Tail(str), from, to)

\* format.replace(/X/gi, '\\d+'), anchored; the dots of the format are left
\* as they are, so each is the regex "any character".
simpleRegexSource(format) ==
  <<"^">> \o replaceAll(format, {"X", "x"}, <<"\\", "d", "+">>) \o <<"$">>

convertSimplePatternToRegex(format) == RegExp(simpleRegexSource(format))

\* format.replace(/\*/g, '[^.]*').replace(/\./g, '\\.'), anchored; the second
\* replacement also rewrites the dot inside each class, giving [^\.]*.
wildcardRegexSource(format) ==
  <<"^">>
  \o replaceAll(replaceAll(format, {"*"}, <<"[", "^", ".", "]", "*">>), {"."}, <<"\\", ".">>)
  \o <<"$">>

convertWildcardPatternToRegex(format) == RegExp(wildcardRegexSource(format))

RegexSpecialChars == {"(", ")", "[", "]", "{", "}", "+", "?", "|", "\\"}

isRegexPattern(format) ==
  \/ startsWith(format, <<"^">>)
  \/ startsWith(format, <<"/">>)
  \/ \E i \in 1..Len(format) : format[i] \in RegexSpecialChars

\* Length of the longest leading  cls+(\.cls+)*  run of str with at least
\* minDots dotted segments after the first one; 0 when there is none.
RECURSIVE moreSegments(_, _)
moreSegments(str, cls) ==
  IF str # <<>> /\ str[1] = "." /\ RunLen(Tail(str), cls) > 0
  THEN [ len |-> 1 + RunLen(Tail(str), cls)
                 + moreSegments(Drop(str, 1 + RunLen(Tail(str), cls)), cls).len,
         dots |-> 1 + moreSegments(Drop(str, 1 + RunLen(Tail(str), cls)), cls).dots ]
  ELSE [ len |-> 0, dots |-> 0 ]

dottedRunLen(str, cls, minDots) ==
  LET n1 == RunLen(str, cls)
      more == moreSegments(Drop(str, n1), cls)
  IN IF n1 > 0 /\ more.dots >= minDots THEN n1 + more.len ELSE 0

\* The match of /^(v?RUN)/ where RUN is the dotted run: first with the v
\* taken, and if that fails with the v left to RUN.
prefixMatch(tagName, cls, minDots) ==
  LET withV == IF tagName # <<>> /\ tagName[1] = "v"
               THEN dottedRunLen(Tail(tagName), cls, minDots) ELSE 0
      withoutV == dottedRunLen(tagName, cls, minDots)
  IN IF withV > 0 THEN Take(tagName, 1 + withV)
     ELSE IF withoutV > 0 THEN Take(tagName, withoutV)
     ELSE <<>>

\* tagName.match(/^(v?\d+(?:\.\d+)*)/), '' when there is no match
extractNumericPrefix(tagName) == prefixMatch(tagName, Digits, 0)

\* extractWildcardPrefix that also takes a leading run without a dot.
extractWildcardPrefixDotless(tagName) == prefixMatch(tagName, Alnum, 0)

\* tagName.match(/^(v?[a-zA-Z0-9]+(?:\.[a-zA-Z0-9]+)+)/), '' when no match
extractWildcardPrefix(tagName) == prefixMatch(tagName, Alnum, 1)

\* format.replace(/^\/|\/$/g, ''), then anchored where it is not yet
regexPatternSource(format) ==
  LET s1 == IF startsWith(format, <<"/">>) THEN Tail(format) ELSE format
      s2 == IF endsWith(s1, <<"/">>) THEN Take(s1, Len(s1) - 1) ELSE s1
      s3 == IF startsWith(s2, <<"^">>) THEN s2 ELSE <<"^">> \o s2
  IN IF endsWith(s3, <<"$">>) THEN s3 ELSE s3 \o <<"$">>

matchTagFormat(tagName, format) ==
  IF format = <<>> \/ tagName = <<>> THEN FALSE
  ELSE IF isSimplePattern(format)
  THEN LET regex == convertSimplePatternToRegex(format)
           prefix == extractNumericPrefix(tagName)
       IN RegExpTest(regex, tagName) \/ (prefix # <<>> /\ RegExpTest(regex, prefix))
  ELSE IF isWildcardPattern(format)
  THEN LET regex == convertWildcardPatternToRegex(format)
           prefix == extractWildcardPrefix(tagName)
       IN (prefix # <<>> /\ RegExpTest(regex, prefix)) \/ RegExpTest(regex, tagName)
  ELSE IF isRegexPattern(format)
  THEN LET regex == RegExp(regexPatternSource(format))
           prefix == extractNumericPrefix(tagName)
       IN IF regex = Null THEN FALSE   \* new RegExp threw: caught, return false
          ELSE RegExpTest(regex, tagName) \/ (prefix # <<>> /\ RegExpTest(regex, prefix))
  ELSE tagName = format

\* filterTagsByFormat with the filter left out: every tag is kept.
filterTagsByFormatKeepsAll(tagNames, format) == tagNames

\* filterTagsByFormat in which an empty format keeps nothing.
filterTagsByFormatEmptyKeepsNone(tagNames, format) ==
  SelectSeq(tagNames, LAMBDA tagName : matchTagFormat(tagName, format))

filterTagsByFormat(tagNames, format) ==
  IF format = <<>> THEN tagNames
  ELSE SelectSeq(tagNames, LAMBDA tagName : matchTagFormat(tagName, format))

(***************************************************************************)
(* Dates: new Date(str).getTime()                                          *)
(***************************************************************************)

\* Days from 1970-01-01 to the civil date y-m-d (proleptic Gregorian).
daysFromCivil(y, m, d) ==
  LET yy == IF m <= 2 THEN y - 1 ELSE y
      era == yy \div 400
      yoe == yy - era * 400
      mp == IF m > 2 THEN m - 3 ELSE m + 9
      doy == (153 * mp + 2) \div 5 + d - 1
      doe == yoe * 365 + yoe \div 4 - yoe \div 100 + doy
  IN era * 146097 + doe - 719468

allDigits(str, from, n) ==
  /\ Len(str) >= from + n - 1
  /\ \A k \in from..(from + n - 1) : str[k] \in Digits

numAt(str, from, n) == parseInt(SubSeq(str, from, from + n - 1))

NaN == [valid |-> FALSE, time |-> 0]

\* new Date(str).getTime() for the ISO-8601 forms the platforms return:
\* YYYY-MM-DD, YYYY-MM-DDTHH:MM:SSZ and YYYY-MM-DDTHH:MM:SS+HH:MM (or -HH:MM).
\* The time is in seconds (getTime()'s milliseconds divided by 1000: every
\* modelled date has whole seconds); any other string gives NaN.
dateGetTime(str) ==
  LET dateOk == /\ allDigits(str, 1, 4) /\ Len(str) >= 10 /\ str[5] = "-"
                /\ allDigits(str, 6, 2) /\ str[8] = "-" /\ allDigits(str, 9, 2)
                /\ numAt(str, 6, 2) \in 1..12 /\ numAt(str, 9, 2) \in 1..31
      timeOk == /\ Len(str) >= 20 /\ str[11] = "T"
                /\ allDigits(str, 12, 2) /\ str[14] = ":" /\ allDigits(str, 15, 2)
                /\ str[17] = ":" /\ allDigits(str, 18, 2)
                /\ numAt(str, 12, 2) < 24 /\ numAt(str, 15, 2) < 60 /\ numAt(str, 18, 2) < 60
      zoneZ == Len(str) = 20 /\ str[20] = "Z"
      zoneOffset == /\ Len(str) = 25 /\ str[20] \in {"+", "-"}
                    /\ allDigits(str, 21, 2) /\ str[23] = ":" /\ allDigits(str, 24, 2)
                    /\ numAt(str, 21, 2) < 24 /\ numAt(str, 24, 2) < 60
      days == daysFromCivil(numAt(str, 1, 4), numAt(str, 6, 2), numAt(str, 9, 2))
      secs == numAt(str, 12, 2) * 3600 + numAt(str, 15, 2) * 60 + numAt(str, 18, 2)
      offset == (numAt(str, 21, 2) * 3600 + numAt(str, 24, 2) * 60)
                * (IF str[20] = "-" THEN -1 ELSE 1)
  IN IF dateOk /\ Len(str) = 10 THEN [valid |-> TRUE, time |-> days * 86400]
     ELSE IF dateOk /\ timeOk /\ zoneZ THEN [valid |-> TRUE, time |-> days * 86400 + secs]
     ELSE IF dateOk /\ timeOk /\ zoneOffset
          THEN [valid |-> TRUE, time |-> days * 86400 + secs - offset]
     ELSE NaN

\* compareByDate on the date strings instead of on their times.
compareByDateString(a, b) ==
  IF StrLess(a.date, b.date) THEN 1 ELSE IF StrLess(b.date, a.date) THEN -1 ELSE 0

\* The comparator (a, b) => new Date(b.date).getTime() - new Date(a.date).getTime();
\* a NaN result is taken as 0 by Array.prototype.sort.
compareByDate(a, b) ==
  LET dateA == dateGetTime(a.date)
      dateB == dateGetTime(b.date)
  IN IF dateA.valid /\ dateB.valid THEN dateB.time - dateA.time ELSE 0

\* itemsWithDates.sort(compareByDate): stable, by insertion as above.
RECURSIVE insertByDate(_, _)
insertByDate(sorted, x) ==
  IF sorted = <<>> THEN <<x>>
  ELSE LET last == sorted[Len(sorted)]
       IN IF compareByDate(last, x) > 0
          THEN insertByDate(Take(sorted, Len(sorted) - 1), x) \o <<last>>
          ELSE sorted \o <<x>>

RECURSIVE sortByDate(_)
sortByDate(items) ==
  IF items = <<>> THEN <<>>
  ELSE insertByDate(sortByDate(Take(items, Len(items) - 1)), items[Len(items)])

\* names.sort() with the default comparator: ascending by code units.
RECURSIVE insertByString(_, _)
insertByString(sorted, x) ==
  IF sorted = <<>> THEN <<x>>
  ELSE LET last == sorted[Len(sorted)]
       IN IF StrLess(x, last)
          THEN insertByString(Take(sorted, Len(sorted) - 1), x) \o <<last>>
          ELSE sorted \o <<x>>

\* sortStrings with the sort left out: the names in the order given.
sortStringsUnsorted(names) == names

RECURSIVE sortStrings(_)
sortStrings(names) ==
  IF names = <<>> THEN <<>>
  ELSE insertByString(sortStrings(Take(names, Len(names) - 1)), names[Len(names)])

(***************************************************************************)
(* Message texts of src/src/tag-resolver.ts and of the platform clients    *)
(***************************************************************************)

TxtNo ==
  <<"N","o"," ">>

TxtSFoundInRepository ==
  <<"s"," ","f","o","u","n","d"," ","i","n"," ","r","e","p","o","s","i","t",
    "o","r","y">>

TxtNoMatchHead ==
  <<"N","o"," ","t","a","g","s"," ","f","o","u","n","d"," ","m","a","t","c",
    "h","i","n","g"," ","a","n","y"," ","f","o","r","m","a","t"," ","p","a",
    "t","t","e","r","n",":"," ","[">>

TxtNoMatchTried ==
  <<"]","."," ","T","r","i","e","d"," ">>

TxtNoMatchTail ==
  <<" ","p","a","t","t","e","r","n","(","s",")"," ","i","n"," ","f","a","l",
    "l","b","a","c","k"," ","o","r","d","e","r",".">>

\* The text the catch block of the optimized path looks for.
TxtRethrowNeedle ==
  <<"N","o"," ","t","a","g","s"," ","f","o","u","n","d"," ","m","a","t","c",
    "h","i","n","g"," ","f","o","r","m","a","t"," ","p","a","t","t","e","r",
    "n">>

TxtOptimized ==
  <<"O","p","t","i","m","i","z","e","d"," ">>

TxtNameFetchFailedUsingFull ==
  <<" ","n","a","m","e"," ","f","e","t","c","h"," ","f","a","i","l","e","d",
    ","," ","u","s","i","n","g"," ","f","u","l","l"," ">>

TxtFetchColon ==
  <<" ","f","e","t","c","h",":"," ">>

TxtNoDateInfo ==
  <<"N","o"," ","d","a","t","e"," ","i","n","f","o","r","m","a","t","i","o",
    "n"," ","a","v","a","i","l","a","b","l","e",","," ","u","s","i","n","g",
    " ","a","l","p","h","a","b","e","t","i","c","a","l"," ","o","r","d","e",
    "r">>

TxtReleasesLocal ==
  <<"R","e","l","e","a","s","e","s"," ","a","r","e"," ","n","o","t"," ","s",
    "u","p","p","o","r","t","e","d"," ","f","o","r"," ","l","o","c","a","l",
    " ","r","e","p","o","s","i","t","o","r","i","e","s">>

TxtFailedToGet ==
  <<"F","a","i","l","e","d"," ","t","o"," ","g","e","t"," ">>

TxtFrom ==
  <<" ","f","r","o","m"," ">>

TxtTagNames ==
  <<"t","a","g"," ","n","a","m","e","s">>

TxtTags ==
  <<"t","a","g","s">>

TxtReleases ==
  <<"r","e","l","e","a","s","e","s">>

TxtTag ==
  <<"t","a","g">>

TxtRelease ==
  <<"r","e","l","e","a","s","e">>

TxtGitHub ==
  <<"G","i","t","H","u","b">>

TxtGitea ==
  <<"G","i","t","e","a">>

TxtBitbucket ==
  <<"B","i","t","b","u","c","k","e","t">>

(***************************************************************************)
(* The values the model draws its inputs from                              *)
(***************************************************************************)

\* Bounds of the model.
MaxTags == 2
MaxPatterns == 2

\* Tag names: two semantic versions whose numeric order is the reverse of
\* their string order (one with a v), a third that compares equal to the
\* second (no v, a build), a version-like name that is not a semantic
\* version, and a plain name.
Tag_1_2_0 == <<"1",".","2",".","0">>
Tag_v1_10_0 == <<"v","1",".","1","0",".","0">>
Tag_1_10_0_b == <<"1",".","1","0",".","0","+","b">>
Tag_3_10_x == <<"3",".","1","0","-","x">>
Tag_edge == <<"e","d","g","e">>

TagUniverse == { Tag_1_2_0, Tag_v1_10_0, Tag_1_10_0_b, Tag_3_10_x, Tag_edge }

\* Dates: unknown (''), and two instants whose string order is the reverse of
\* their time order (00:30 at +01:00 is 23:30Z of the day before).
NoDate == <<>>
DateEarly == <<"2","0","2","4","-","0","1","-","0","2","T","0","0",":","3","0",":","0","0","+","0","1",":","0","0">>
DateLate == <<"2","0","2","4","-","0","1","-","0","1","T","2","3",":","4","5",":","0","0","Z">>

DateUniverse == { NoDate, DateEarly, DateLate }

\* Format patterns: simple, wildcard, and a regex-classified pattern that
\* does not compile.
Pat_XX == <<"X",".","X">>
Pat_W3 == <<"*",".","*",".","*">>
Pat_bad == <<"(">>

PatternUniverse ==
  { p \in { Pat_XX, Pat_W3, Pat_bad } :
      isSimplePattern(p) \/ isWildcardPattern(p) \/ ~isRegexPattern(p)
        \/ InRegexFragment(regexPatternSource(p)) }

\* The message of the error a failing request rejects with.
TxtNotFound == <<"N","o","t"," ","F","o","u","n","d">>
FetchErrors == { TxtNotFound }

\* All sequences over set S of length lo..hi.
SeqsOf(S, lo, hi) == UNION { [1..n -> S] : n \in lo..hi }

\* A repository holds each tag name once; a fallback list names each pattern
\* once.
NoDuplicates(seq) == \A i, j \in 1..Len(seq) : seq[i] = seq[j] => i = j

\* The configurations whose listing code is in the sources: tags on every
\* backend, releases on GitHub, and the rejected local release request.
Configs ==
  { [type |-> "local", platform |-> "none", itemType |-> "tags"],
    [type |-> "local", platform |-> "none", itemType |-> "release"],
    [type |-> "remote", platform |-> "github", itemType |-> "tags"],
    [type |-> "remote", platform |-> "github", itemType |-> "release"],
    [type |-> "remote", platform |-> "gitea", itemType |-> "tags"],
    [type |-> "remote", platform |-> "bitbucket", itemType |-> "tags"] }

(***************************************************************************)
(* src/src/tag-resolver.ts: one run of resolveLatestTag                    *)
(***************************************************************************)

VARIABLES
  config,             \* the RepoConfig and the itemType argument
  formatPatterns,     \* [defined, list]: the normalised tagFormat argument
  repo,               \* the tag names of the backing repository, in listing order
  pc,                 \* where the run is suspended
  itemNames,          \* result of the names-only fetch
  filteredItemNames,  \* the optimized path's (format-filtered) names
  allItems,           \* result of the dated fetch
  filteredItems,      \* the full path's (format-filtered) items
  i,                  \* filterTagsWithFallback: index of the next pattern (from 1)
  attemptedPatterns,  \* filterTagsWithFallback: patterns that matched nothing
  outcome,            \* [kind, by, value]: pending, returned name or thrown message
  warnings,           \* messages passed to core.warning, in order
  fetches,            \* requests issued to the source so far and how each ended
  evaluations,        \* pattern evaluations logged by filterTagsWithFallback
  call,               \* a direct call of an exported function: [fn, args]
  returned            \* what that call returned: [done, value]

vars == << config, formatPatterns, repo, pc, itemNames, filteredItemNames, allItems,
           filteredItems, i, attemptedPatterns, outcome, warnings, fetches, evaluations,
           call, returned >>

\* A run of resolveLatestTag makes no direct call from outside.
NoCall == [fn |-> "none", args |-> <<>>]
NotReturned == [done |-> FALSE, value |-> <<>>]
ReturnedValue(v) == [done |-> TRUE, value |-> v]

NoFormat == [defined |-> FALSE, list |-> <<>>]
NoError == <<>>
Pending == [kind |-> "pending", by |-> "none", value |-> <<>>]
Returned(by, name) == [kind |-> "returned", by |-> by, value |-> name]
Threw(message) == [kind |-> "threw", by |-> "throw", value |-> message]

itemLabel(itemType) == IF itemType = "release" THEN TxtRelease ELSE TxtTag

\* `No ${itemLabel}s found in repository`
NoItemsMessage(itemType) == TxtNo \o itemLabel(itemType) \o TxtSFoundInRepository

\* `No tags found matching any format pattern: [${patternsList}]. Tried
\* ${attemptedPatterns.length} pattern(s) in fallback order.`
NoMatchMessage(attempted) ==
  LET patternsList == join([k \in 1..Len(attempted) |-> <<"\"">> \o attempted[k] \o <<"\"">>],
                           <<",", " ">>)
  IN TxtNoMatchHead \o patternsList \o TxtNoMatchTried
       \o numToStr(Len(attempted)) \o TxtNoMatchTail

\* `Optimized ${itemLabel} name fetch failed, using full ${itemLabel} fetch: ${message}`
OptimizedWarning(itemType, message) ==
  TxtOptimized \o itemLabel(itemType) \o TxtNameFetchFailedUsingFull
    \o itemLabel(itemType) \o TxtFetchColon \o message

platformName(platform) ==
  CASE platform = "github" -> TxtGitHub
    [] platform = "gitea" -> TxtGitea
    [] platform = "bitbucket" -> TxtBitbucket

\* `Failed to get ${what} from ${Platform}: ${error.message}`
FetchFailedMessage(what, platform, err) ==
  TxtFailedToGet \o what \o TxtFrom \o platformName(platform) \o <<":", " ">> \o err

names(items) == [k \in 1..Len(items) |-> items[k].name]

\* The entry of fetches for a request of kind what ("names" or "items") that
\* ended as result.
Fetched(what, result) ==
  [what |-> what, failed |-> result.threw, message |-> result.message,
   count |-> Len(result.value)]

\* getAllItemNamesFromRepo on the optimized path (GitHub tags): the names of
\* the listing, empty ones dropped, or the client's error when err is one.
getAllItemNamesFromRepo(cfg, err) ==
  IF err # NoError
  THEN [threw |-> TRUE, message |-> FetchFailedMessage(TxtTagNames, cfg.platform, err),
        value |-> <<>>]
  ELSE [threw |-> FALSE, message |-> <<>>,
        value |-> SelectSeq(repo, LAMBDA name : name # <<>>)]

\* getAllItemsFromRepo that answers a local release request with the tags.
getAllItemsFromRepoLocalReleasesListed(cfg, err, dates) ==
  IF cfg.type = "local"
  THEN [threw |-> FALSE, message |-> <<>>, fetched |-> TRUE,
        value |-> IF err # NoError THEN <<>>
                  ELSE [k \in 1..Len(repo) |-> [name |-> repo[k], date |-> NoDate]]]
  ELSE IF err # NoError
  THEN [threw |-> TRUE, fetched |-> TRUE, value |-> <<>>,
        message |-> FetchFailedMessage(IF cfg.itemType = "release" THEN TxtReleases ELSE TxtTags,
                                       cfg.platform, err)]
  ELSE [threw |-> FALSE, message |-> <<>>, fetched |-> TRUE,
        value |-> [k \in 1..Len(repo) |-> [name |-> repo[k], date |-> dates[k]]]]

\* getAllItemsFromRepo.  A local release request is rejected before any
\* listing; a local listing has no dates and is empty when git fails; a
\* remote listing carries the dates the platform returns, or rejects.
getAllItemsFromRepo(cfg, err, dates) ==
  IF cfg.itemType = "release" /\ cfg.type = "local"
  THEN [threw |-> TRUE, message |-> TxtReleasesLocal, value |-> <<>>, fetched |-> FALSE]
  ELSE IF cfg.type = "local"
  THEN [threw |-> FALSE, message |-> <<>>, fetched |-> TRUE,
        value |-> IF err # NoError THEN <<>>
                  ELSE [k \in 1..Len(repo) |-> [name |-> repo[k], date |-> NoDate]]]
  ELSE IF err # NoError
  THEN [threw |-> TRUE, fetched |-> TRUE, value |-> <<>>,
        message |-> FetchFailedMessage(IF cfg.itemType = "release" THEN TxtReleases ELSE TxtTags,
                                       cfg.platform, err)]
  ELSE [threw |-> FALSE, message |-> <<>>, fetched |-> TRUE,
        value |-> [k \in 1..Len(repo) |-> [name |-> repo[k], date |-> dates[k]]]]

Init ==
  /\ config \in Configs
  /\ formatPatterns \in
       {NoFormat} \cup { [defined |-> TRUE, list |-> l] :
                            l \in { p \in SeqsOf(PatternUniverse, 1, MaxPatterns) :
                                      NoDuplicates(p) } }
  /\ repo \in { r \in SeqsOf(TagUniverse, 0, MaxTags) : NoDuplicates(r) }
  /\ pc = "start"
  /\ itemNames = <<>>
  /\ filteredItemNames = <<>>
  /\ allItems = <<>>
  /\ filteredItems = <<>>
  /\ i = 0
  /\ attemptedPatterns = <<>>
  /\ outcome = Pending
  /\ warnings = <<>>
  /\ fetches = <<>>
  /\ evaluations = <<>>
  /\ call = NoCall
  /\ returned = NotReturned

\* Lines 395 and 434: the optimized path is taken for GitHub tags only.
UsesOptimizedPath(cfg) ==
  cfg.type = "remote" /\ cfg.platform = "github" /\ cfg.itemType = "tags"

\* Enter that takes the names-only path on every remote platform.
EnterNamesOnEveryPlatform ==
  /\ UNCHANGED << call, returned >>
  /\ pc = "start"
  /\ pc' = IF config.type = "remote" /\ config.itemType = "tags"
           THEN "names_fetch" ELSE "items_fetch"
  /\ UNCHANGED << config, formatPatterns, repo, itemNames, filteredItemNames, allItems,
                  filteredItems, i, attemptedPatterns, outcome, warnings, fetches,
                  evaluations >>

Enter ==
  /\ UNCHANGED << call, returned >>
  /\ pc = "start"
  /\ pc' = IF UsesOptimizedPath(config) THEN "names_fetch" ELSE "items_fetch"
  /\ UNCHANGED << config, formatPatterns, repo, itemNames, filteredItemNames, allItems,
                  filteredItems, i, attemptedPatterns, outcome, warnings, fetches,
                  evaluations >>

\* CatchOptimized that rethrows every error of the optimized path.
CatchOptimizedRethrowsAll(message) ==
  /\ outcome' = Threw(message)
  /\ pc' = "done"
  /\ UNCHANGED warnings

\* The catch block of the optimized path (lines 423-430), entered with the
\* message of the error thrown inside the try block.
CatchOptimized(message) ==
  IF includes(message, TxtRethrowNeedle)
  THEN /\ outcome' = Threw(message)
       /\ pc' = "done"
       /\ UNCHANGED warnings
  ELSE /\ warnings' = Append(warnings, OptimizedWarning(config.itemType, message))
       /\ pc' = "items_fetch"
       /\ UNCHANGED outcome

\* The names-only fetch completes (lines 397-407).
FetchNames ==
  /\ UNCHANGED << call, returned >>
  /\ pc = "names_fetch"
  /\ \E err \in FetchErrors \cup {NoError} :
       LET result == getAllItemNamesFromRepo(config, err)
       IN /\ fetches' = Append(fetches, Fetched("names", result))
          /\ itemNames' = result.value
          /\ IF result.threw
             THEN /\ CatchOptimized(result.message)
                  /\ UNCHANGED << filteredItemNames, i, attemptedPatterns >>
             ELSE IF Len(result.value) = 0
             THEN /\ CatchOptimized(NoItemsMessage(config.itemType))
                  /\ UNCHANGED << filteredItemNames, i, attemptedPatterns >>
             ELSE IF formatPatterns.defined
             THEN /\ pc' = "fast_filter"
                  /\ i' = 1
                  /\ attemptedPatterns' = <<>>
                  /\ UNCHANGED << filteredItemNames, outcome, warnings >>
             ELSE /\ pc' = "fast_semver"
                  /\ filteredItemNames' = result.value
                  /\ UNCHANGED << i, attemptedPatterns, outcome, warnings >>
  /\ UNCHANGED << config, formatPatterns, repo, allItems, filteredItems, evaluations >>

\* FilterStep with the patterns tried from the end of the list: iteration i
\* evaluates the i-th pattern from the end.
FilterStepFromEnd ==
  /\ UNCHANGED << call, returned >>
  /\ pc \in {"fast_filter", "full_filter"}
  /\ i <= Len(formatPatterns.list)
  /\ LET tagNames == IF pc = "fast_filter" THEN itemNames ELSE names(allItems)
         at == Len(formatPatterns.list) + 1 - i
         pattern == formatPatterns.list[at]
         filtered == filterTagsByFormat(tagNames, pattern)
     IN /\ evaluations' = Append(evaluations,
                                 [context |-> pc, pattern |-> at, matched |-> Len(filtered)])
        /\ IF Len(filtered) > 0
           THEN /\ IF pc = "fast_filter"
                   THEN /\ filteredItemNames' = filtered
                        /\ pc' = "fast_semver"
                        /\ UNCHANGED filteredItems
                   ELSE /\ filteredItems' =
                             SelectSeq(allItems, LAMBDA item :
                                 \E k \in 1..Len(filtered) : filtered[k] = item.name)
                        /\ pc' = "full_select"
                        /\ UNCHANGED filteredItemNames
                /\ UNCHANGED << i, attemptedPatterns >>
           ELSE /\ attemptedPatterns' = Append(attemptedPatterns, pattern)
                /\ i' = i + 1
                /\ UNCHANGED << pc, filteredItemNames, filteredItems >>
  /\ UNCHANGED << config, formatPatterns, repo, itemNames, allItems, outcome, warnings,
                  fetches >>

\* One iteration of the loop of filterTagsWithFallback (lines 333-354), on
\* the names of the path that called it.
FilterStep ==
  /\ UNCHANGED << call, returned >>
  /\ pc \in {"fast_filter", "full_filter"}
  /\ i <= Len(formatPatterns.list)
  /\ LET tagNames == IF pc = "fast_filter" THEN itemNames ELSE names(allItems)
         pattern == formatPatterns.list[i]
         filtered == filterTagsByFormat(tagNames, pattern)
     IN /\ evaluations' = Append(evaluations,
                                 [context |-> pc, pattern |-> i, matched |-> Len(filtered)])
        /\ IF Len(filtered) > 0
           THEN /\ IF pc = "fast_filter"
                   THEN /\ filteredItemNames' = filtered
                        /\ pc' = "fast_semver"
                        /\ UNCHANGED filteredItems
                   ELSE /\ filteredItems' =
                             SelectSeq(allItems, LAMBDA item :
                                 \E k \in 1..Len(filtered) : filtered[k] = item.name)
                        /\ pc' = "full_select"
                        /\ UNCHANGED filteredItemNames
                /\ UNCHANGED << i, attemptedPatterns >>
           ELSE /\ attemptedPatterns' = Append(attemptedPatterns, pattern)
                /\ i' = i + 1
                /\ UNCHANGED << pc, filteredItemNames, filteredItems >>
  /\ UNCHANGED << config, formatPatterns, repo, itemNames, allItems, outcome, warnings,
                  fetches >>

\* FilterExhausted that starts the pattern loop again on the full path.
FilterExhaustedRestarts ==
  /\ UNCHANGED << call, returned >>
  /\ pc \in {"fast_filter", "full_filter"}
  /\ i > Len(formatPatterns.list)
  /\ IF pc = "fast_filter"
     THEN CatchOptimized(NoMatchMessage(attemptedPatterns)) /\ UNCHANGED i
     ELSE /\ i' = 1
          /\ UNCHANGED << pc, outcome, warnings >>
  /\ UNCHANGED << config, formatPatterns, repo, itemNames, filteredItemNames, allItems,
                  filteredItems, attemptedPatterns, fetches, evaluations >>

\* The loop ended without a match (lines 356-360): the error is caught on
\* the optimized path and propagates on the full path.
FilterExhausted ==
  /\ UNCHANGED << call, returned >>
  /\ pc \in {"fast_filter", "full_filter"}
  /\ i > Len(formatPatterns.list)
  /\ IF pc = "fast_filter"
     THEN CatchOptimized(NoMatchMessage(attemptedPatterns))
     ELSE /\ outcome' = Threw(NoMatchMessage(attemptedPatterns))
          /\ pc' = "done"
          /\ UNCHANGED warnings
  /\ UNCHANGED << config, formatPatterns, repo, itemNames, filteredItemNames, allItems,
                  filteredItems, i, attemptedPatterns, fetches, evaluations >>

\* FastSemver that returns the first semantic version found, without sorting.
FastSemverTakesFirst ==
  /\ UNCHANGED << call, returned >>
  /\ pc = "fast_semver"
  /\ LET semverItems == SelectSeq(filteredItemNames, isSemver)
     IN IF Len(semverItems) > 0
        THEN /\ outcome' = Returned("semver-optimized", semverItems[1])
             /\ pc' = "done"
        ELSE /\ pc' = "items_fetch"
             /\ UNCHANGED outcome
  /\ UNCHANGED << config, formatPatterns, repo, itemNames, filteredItemNames, allItems,
                  filteredItems, i, attemptedPatterns, warnings, fetches, evaluations >>

\* FastSemver that goes on to the dated fetch whatever it selected.
FastSemverNeverReturns ==
  /\ UNCHANGED << call, returned >>
  /\ pc = "fast_semver"
  /\ pc' = "items_fetch"
  /\ UNCHANGED << config, formatPatterns, repo, itemNames, filteredItemNames, allItems,
                  filteredItems, i, attemptedPatterns, outcome, warnings, fetches,
                  evaluations >>

\* The semver selection of the optimized path (lines 410-422).
FastSemver ==
  /\ UNCHANGED << call, returned >>
  /\ pc = "fast_semver"
  /\ LET semverItems == SelectSeq(filteredItemNames, isSemver)
     IN IF Len(semverItems) > 0
        THEN /\ outcome' = Returned("semver-optimized", sortTagsBySemver(semverItems)[1])
             /\ pc' = "done"
        ELSE /\ pc' = "items_fetch"
             /\ UNCHANGED outcome
  /\ UNCHANGED << config, formatPatterns, repo, itemNames, filteredItemNames, allItems,
                  filteredItems, i, attemptedPatterns, warnings, fetches, evaluations >>

\* The dated fetch completes (lines 434-448).
FetchItems ==
  /\ UNCHANGED << call, returned >>
  /\ pc = "items_fetch"
  /\ \E err \in FetchErrors \cup {NoError}, dates \in [1..Len(repo) -> DateUniverse] :
       LET result == getAllItemsFromRepo(config, err, dates)
       IN /\ fetches' = IF result.fetched THEN Append(fetches, Fetched("items", result))
                       ELSE fetches
          /\ allItems' = result.value
          /\ IF result.threw
             THEN /\ outcome' = Threw(result.message)
                  /\ pc' = "done"
                  /\ UNCHANGED << filteredItems, i, attemptedPatterns >>
             ELSE IF Len(result.value) = 0
             THEN /\ outcome' = Threw(NoItemsMessage(config.itemType))
                  /\ pc' = "done"
                  /\ UNCHANGED << filteredItems, i, attemptedPatterns >>
             ELSE IF formatPatterns.defined
             THEN /\ pc' = "full_filter"
                  /\ i' = 1
                  /\ attemptedPatterns' = <<>>
                  /\ UNCHANGED << filteredItems, outcome >>
             ELSE /\ pc' = "full_select"
                  /\ filteredItems' = result.value
                  /\ UNCHANGED << i, attemptedPatterns, outcome >>
  /\ UNCHANGED << config, formatPatterns, repo, itemNames, filteredItemNames, warnings,
                  evaluations >>

semverItemsOf(items) == SelectSeq(items, LAMBDA item : isSemver(item.name))
itemsWithDatesOf(items) == SelectSeq(items, LAMBDA item : item.date # <<>>)

\* Lines 450-460: semver selection on the full path.
SemverResolve ==
  /\ UNCHANGED << call, returned >>
  /\ pc = "full_select"
  /\ Len(semverItemsOf(filteredItems)) > 0
  /\ outcome' = Returned("semver", sortTagsBySemver(names(semverItemsOf(filteredItems)))[1])
  /\ pc' = "done"
  /\ UNCHANGED << config, formatPatterns, repo, itemNames, filteredItemNames, allItems,
                  filteredItems, i, attemptedPatterns, warnings, fetches, evaluations >>

\* Lines 462-476: the most recent item that has a date.
DateResolve ==
  /\ UNCHANGED << call, returned >>
  /\ pc = "full_select"
  /\ Len(semverItemsOf(filteredItems)) = 0
  /\ Len(itemsWithDatesOf(filteredItems)) > 0
  /\ outcome' = Returned("date", sortByDate(itemsWithDatesOf(filteredItems))[1].name)
  /\ pc' = "done"
  /\ UNCHANGED << config, formatPatterns, repo, itemNames, filteredItemNames, allItems,
                  filteredItems, i, attemptedPatterns, warnings, fetches, evaluations >>

\* Lines 478-481: the last name in string order.
AlphabeticalFallback ==
  /\ UNCHANGED << call, returned >>
  /\ pc = "full_select"
  /\ Len(semverItemsOf(filteredItems)) = 0
  /\ Len(itemsWithDatesOf(filteredItems)) = 0
  /\ warnings' = Append(warnings, TxtNoDateInfo)
  /\ LET sorted == sortStrings(names(filteredItems))
     IN outcome' = Returned("alphabetical", sorted[Len(sorted)])
  /\ pc' = "done"
  /\ UNCHANGED << config, formatPatterns, repo, itemNames, filteredItemNames, allItems,
                  filteredItems, i, attemptedPatterns, fetches, evaluations >>

Next ==
  \/ Enter
  \/ FetchNames
  \/ FilterStep
  \/ FilterExhausted
  \/ FastSemver
  \/ FetchItems
  \/ SemverResolve
  \/ DateResolve
  \/ AlphabeticalFallback

Spec == Init /\ [][Next]_vars

(***************************************************************************)
(* Properties of resolveLatestTag                                          *)
(***************************************************************************)

\* The candidate list a run worked on: the names of the dated listing when
\* one was obtained, else the names-only listing.
CandidateNames == IF allItems # <<>> THEN names(allItems) ELSE itemNames

\* Index of the first pattern of list that matches at least one of tagNames,
\* 0 when no pattern does.
FirstMatchingPattern(list, tagNames) ==
  LET hits == { k \in 1..Len(list) :
                  \E n \in 1..Len(tagNames) : matchTagFormat(tagNames[n], list[k]) }
  IN IF hits = {} THEN 0 ELSE CHOOSE k \in hits : \A j \in hits : k <= j

\* The working set of a candidate list: all of it when no format is
\* configured, else the candidates the first matching pattern matches.
WorkingNames(tagNames) ==
  IF ~formatPatterns.defined THEN tagNames
  ELSE LET first == FirstMatchingPattern(formatPatterns.list, tagNames)
       IN IF first = 0 THEN <<>>
          ELSE SelectSeq(tagNames, LAMBDA n : matchTagFormat(n, formatPatterns.list[first]))

\* The entries of a dated listing that are in its working set.
WorkingItems(items) ==
  LET working == Range(WorkingNames(names(items)))
  IN SelectSeq(items, LAMBDA item : item.name \in working)

Timestamp(item) == dateGetTime(item.date).time

\* C1: when the working set of a finished run holds a semantic version, the
\* run returned a name; that name is a semantic version of the working set,
\* and no semantic version of the working set compares strictly greater.
C1_SemverFirst ==
  pc = "done" =>
    LET working == Range(WorkingNames(CandidateNames))
    IN (\E n \in working : isSemver(n)) =>
         /\ outcome.kind = "returned"
         /\ isSemver(outcome.value)
         /\ outcome.value \in working
         /\ \A n \in working : isSemver(n) => compareSemver(n, outcome.value) <= 0

\* A run returned the greater of two semantic versions although the lesser
\* one comes first in the listing and has the later date.
C1_Witness ==
  /\ pc = "done"
  /\ outcome.by = "semver"
  /\ Len(WorkingItems(allItems)) >= 2
  /\ LET lesser == WorkingItems(allItems)[1]
         greater == WorkingItems(allItems)[2]
     IN /\ greater.name = outcome.value
        /\ isSemver(lesser.name)
        /\ compareSemver(lesser.name, greater.name) < 0
        /\ lesser.date # NoDate /\ greater.date # NoDate
        /\ Timestamp(lesser) > Timestamp(greater)

\* C2: when the working set of the dated listing holds no semantic version
\* and at least one entry with a date, the run returned the name of a dated
\* entry whose timestamp is at least that of every dated entry.
C2_DateFallback ==
  pc = "done" =>
    LET working == Range(WorkingItems(allItems))
    IN (/\ \A item \in working : ~isSemver(item.name)
        /\ \E item \in working : item.date # NoDate) =>
         /\ outcome.kind = "returned"
         /\ \E item \in working :
              /\ item.name = outcome.value
              /\ item.date # NoDate
              /\ \A other \in working :
                   other.date # NoDate => Timestamp(item) >= Timestamp(other)

\* A run returned by date the second of two dated entries, the more recent
\* one, whose date string is the smaller of the two.
C2_Witness ==
  /\ pc = "done"
  /\ outcome.by = "date"
  /\ Len(WorkingItems(allItems)) >= 2
  /\ LET older == WorkingItems(allItems)[1]
         newer == WorkingItems(allItems)[2]
     IN /\ newer.name = outcome.value
        /\ older.date # NoDate /\ newer.date # NoDate
        /\ Timestamp(older) < Timestamp(newer)
        /\ StrLess(newer.date, older.date)

\* C3: when the working set of the dated listing is not empty and holds no
\* semantic version and no entry with a date, the run returned the name of
\* the working set that is greatest in string order.
C3_AlphabeticalFallback ==
  pc = "done" =>
    LET working == Range(WorkingItems(allItems))
    IN (/\ working # {}
        /\ \A item \in working : ~isSemver(item.name) /\ item.date = NoDate) =>
         /\ outcome.kind = "returned"
         /\ \E item \in working : item.name = outcome.value
         /\ \A item \in working : ~StrLess(outcome.value, item.name)

\* A run returned in alphabetical order the first of two undated entries.
C3_Witness ==
  /\ pc = "done"
  /\ outcome.by = "alphabetical"
  /\ Len(WorkingItems(allItems)) >= 2
  /\ WorkingItems(allItems)[1].name = outcome.value

\* The selection among the entries of a non-empty working set: the first
\* (in listing order) of the greatest semantic versions; failing any, the
\* first of the most recent dated entries; failing any, the greatest name.
LatestOf(entries) ==
  LET semvers == { k \in 1..Len(entries) : isSemver(entries[k].name) }
      dated == { k \in 1..Len(entries) : entries[k].date # NoDate }
      firstOf(best) == entries[CHOOSE k \in best : \A j \in best : k <= j].name
  IN IF semvers # {}
     THEN firstOf({ k \in semvers :
                      \A j \in semvers : compareSemver(entries[j].name, entries[k].name) <= 0 })
     ELSE IF dated # {}
     THEN firstOf({ k \in dated :
                      \A j \in dated : Timestamp(entries[j]) <= Timestamp(entries[k]) })
     ELSE firstOf({ k \in 1..Len(entries) :
                      \A j \in 1..Len(entries) : ~StrLess(entries[k].name, entries[j].name) })

\* The working set of a run as entries: of the dated listing when one was
\* obtained, else of the names-only listing, whose entries have no date.
WorkingEntries ==
  IF allItems # <<>> THEN WorkingItems(allItems)
  ELSE LET working == WorkingNames(itemNames)
       IN [k \in 1..Len(working) |-> [name |-> working[k], date |-> NoDate]]

\* The candidate list that the filter pass of a context works on.
FilterInput(context) == IF context = "fast_filter" THEN itemNames ELSE names(allItems)

\* C4: every step of a run keeps the first-match-wins order.  A step that
\* evaluates a pattern evaluates one pattern, and every pattern before it in
\* the list matches no candidate of the pass; a pass that ends with a match
\* leaves as working set exactly the candidates matched by the first pattern
\* that matches any; and a returned name is the selection from that working
\* set, which the patterns after the winning one have no part in.
C4_FirstMatchWins ==
  /\ [][ evaluations' # evaluations =>
           LET e == evaluations'[Len(evaluations')]
           IN /\ evaluations' = Append(evaluations, e)
              /\ \A k \in 1..(e.pattern - 1) :
                   \A n \in Range(FilterInput(e.context)) :
                     ~matchTagFormat(n, formatPatterns.list[k])
       ]_vars
  /\ [] /\ (formatPatterns.defined /\ pc = "fast_semver") =>
             filteredItemNames = WorkingNames(itemNames)
        /\ (formatPatterns.defined /\ pc = "full_select") =>
             names(filteredItems) = WorkingNames(names(allItems))
        /\ (formatPatterns.defined /\ outcome.kind = "returned") =>
             outcome.value = LatestOf(WorkingEntries)

\* A run returned a name selected by the first of two patterns although the
\* second pattern matches a candidate that the first does not.
C4_Witness ==
  /\ pc = "done"
  /\ outcome.kind = "returned"
  /\ formatPatterns.defined
  /\ Len(formatPatterns.list) = 2
  /\ FirstMatchingPattern(formatPatterns.list, CandidateNames) = 1
  /\ \E n \in Range(CandidateNames) :
       /\ matchTagFormat(n, formatPatterns.list[2])
       /\ ~matchTagFormat(n, formatPatterns.list[1])

\* The no-pattern-match error for a pattern list: its message starts as that
\* error does and lists, between brackets, every pattern of the list once,
\* quoted, in the order of the list.
IsNoPatternMatchError(message, list) ==
  /\ startsWith(message, TxtNoMatchHead)
  /\ includes(message,
              <<"[">> \o join([k \in 1..Len(list) |-> <<"\"">> \o list[k] \o <<"\"">>],
                              <<",", " ">>) \o <<"]">>)

\* C5: a finished run that was given patterns none of which matches any of
\* its (one or more) candidates failed with the no-pattern-match error, whose
\* message lists every pattern once, in order.
C5_NoMatchReported ==
  (/\ pc = "done"
   /\ formatPatterns.defined
   /\ CandidateNames # <<>>
   /\ FirstMatchingPattern(formatPatterns.list, CandidateNames) = 0) =>
    /\ outcome.kind = "threw"
    /\ IsNoPatternMatchError(outcome.value, formatPatterns.list)

\* C6: a finished run whose first listing request succeeded with an empty
\* list failed with the no-items error and issued no other request.
C6_EmptyFailsImmediately ==
  (/\ pc = "done"
   /\ fetches # <<>>
   /\ ~fetches[1].failed
   /\ fetches[1].count = 0) =>
    /\ outcome.kind = "threw"
    /\ outcome.value = NoItemsMessage(config.itemType)
    /\ Len(fetches) = 1

\* C7: once the optimized path has found that no pattern matches any of the
\* names it fetched, the run is over with the no-pattern-match error: no
\* warning was emitted and no dated fetch was issued.
C7_FormatFailureRethrown ==
  (/\ UsesOptimizedPath(config)
   /\ formatPatterns.defined
   /\ itemNames # <<>>
   /\ FirstMatchingPattern(formatPatterns.list, itemNames) = 0
   /\ pc \notin {"start", "names_fetch", "fast_filter"}) =>
    /\ pc = "done"
    /\ outcome.kind = "threw"
    /\ IsNoPatternMatchError(outcome.value, formatPatterns.list)
    /\ warnings = <<>>
    /\ Len(fetches) = 1

\* The outcome of the dated path alone on a dated listing, as [kind, value].
SinglePhaseOutcome(items) ==
  IF items = <<>>
  THEN [kind |-> "threw", value |-> NoItemsMessage(config.itemType)]
  ELSE IF formatPatterns.defined
            /\ FirstMatchingPattern(formatPatterns.list, names(items)) = 0
  THEN [kind |-> "threw", value |-> NoMatchMessage(formatPatterns.list)]
  ELSE [kind |-> "returned", value |-> LatestOf(WorkingItems(items))]

SameOutcome(got, expected) == got.kind = expected.kind /\ got.value = expected.value

LastFetch == fetches[Len(fetches)]

\* C8: in a finished run whose names-only fetch failed, the dated fetch was
\* issued next and the outcome is that of the dated path alone (the dated
\* fetch's error, or the single-phase outcome on its listing), not the
\* names-only failure; and in a finished run whose dated fetch failed, the
\* outcome is that fetch's error.
C8_NamesFailureNotFatal ==
  pc = "done" =>
    /\ (fetches # <<>> /\ fetches[1].what = "names" /\ fetches[1].failed) =>
         /\ Len(fetches) = 2
         /\ fetches[2].what = "items"
         /\ outcome.value # fetches[1].message
         /\ IF fetches[2].failed
            THEN SameOutcome(outcome, [kind |-> "threw", value |-> fetches[2].message])
            ELSE SameOutcome(outcome, SinglePhaseOutcome(allItems))
    /\ (fetches # <<>> /\ LastFetch.what = "items" /\ LastFetch.failed) =>
         /\ outcome.kind = "threw"
         /\ outcome.value = LastFetch.message

\* A run returned a name after its names-only fetch had failed.
C8_Witness ==
  /\ pc = "done"
  /\ Len(fetches) = 2
  /\ fetches[1].what = "names"
  /\ fetches[1].failed
  /\ ~fetches[2].failed
  /\ outcome.kind = "returned"

\* C9: a name returned by a run that was given patterns is one of the
\* candidates and matches the pattern the run selected, the one its last
\* evaluation found matching.
C9_FilterBeforeSort ==
  (pc = "done" /\ formatPatterns.defined /\ outcome.kind = "returned") =>
    /\ evaluations # <<>>
    /\ evaluations[Len(evaluations)].matched > 0
    /\ outcome.value \in Range(CandidateNames)
    /\ matchTagFormat(outcome.value,
                      formatPatterns.list[evaluations[Len(evaluations)].pattern])

\* A run returned a name that is no semantic version while a candidate that
\* does not match the selected pattern is one.
C9_Witness ==
  /\ pc = "done"
  /\ formatPatterns.defined
  /\ outcome.kind = "returned"
  /\ ~isSemver(outcome.value)
  /\ \E n \in Range(CandidateNames) :
       /\ isSemver(n)
       /\ ~matchTagFormat(n, formatPatterns.list[evaluations[Len(evaluations)].pattern])

\* The dated listings that agree with the names-only listing of a run: the
\* one the run fetched, or, when it fetched none, the names with any dates.
AgreeingDatedLists ==
  IF \E k \in 1..Len(fetches) : fetches[k].what = "items"
  THEN {allItems}
  ELSE { [k \in 1..Len(itemNames) |-> [name |-> itemNames[k], date |-> dates[k]]] :
           dates \in [1..Len(itemNames) -> DateUniverse] }

\* C10: a finished run on the optimized path none of whose fetches failed has
\* the outcome of the dated path alone on every dated listing that agrees
\* with its names-only listing.
C10_FastPathIsOptimization ==
  (/\ pc = "done"
   /\ UsesOptimizedPath(config)
   /\ \A k \in 1..Len(fetches) : ~fetches[k].failed) =>
    \A items \in AgreeingDatedLists : SameOutcome(outcome, SinglePhaseOutcome(items))

\* A run returned on the optimized path, without a dated fetch, the second
\* of two semantic versions.
C10_Witness ==
  /\ pc = "done"
  /\ outcome.by = "semver-optimized"
  /\ Len(fetches) = 1
  /\ Len(filteredItemNames) = 2
  /\ isSemver(filteredItemNames[1])
  /\ outcome.value = filteredItemNames[2]


(***************************************************************************)
(* src/src/semver.ts called directly: compareSemver and sortTagsBySemver   *)
(***************************************************************************)

MaxSortLen == 3

\* Version numbers whose numeric order is the reverse of their string order.
VersionNumbers == { <<"2">>, <<"1","0">> }

VersionCores ==
  { a \o <<".">> \o b \o <<".">> \o c : a, b, c \in VersionNumbers }

\* Prerelease and build suffixes ("" for none); "B" sorts before "a" by code
\* unit, and only by code unit.
PrereleaseSuffixes == { <<>>, <<"-","a">>, <<"-","B">>, <<"-","a",".","1">> }
BuildSuffixes == { <<>>, <<"+","b">> }

\* Valid versions: every combination, plain or with a v, and some with a V,
\* a leading zero, a numeric prerelease and a build that holds "-" and ".".
ValidVersions ==
  { v \o core \o pre \o build :
      v \in { <<>>, <<"v">> }, core \in VersionCores,
      pre \in PrereleaseSuffixes, build \in BuildSuffixes }
  \cup { <<"V","2",".","1","0",".","2">>,
         <<"V","2",".","1","0",".","2","-","a">>,
         <<"0","2",".","1","0",".","2">>,
         <<"2",".","1","0",".","2","-","1","0">>,
         <<"2",".","1","0",".","2","-","2">>,
         <<"2",".","1","0",".","2","+","b","-","1",".","a">>,
         <<"2",".","1","0",".","2","-","a","-","b","+","b">> }

\* Names that are no version.
InvalidVersions ==
  { <<>>, <<"v">>, <<"x">>,
    <<"2",".","1","0">>,
    <<"2",".","1","0",".","2",".","2">>,
    <<"2",".","1","0",".","2","-">>,
    <<"2",".","1","0",".","2","+">>,
    <<"2",".","1","0",".","2","-","a","_">>,
    <<"2",".","1","0",".","2","+","b","+","b">>,
    <<"v","v","2",".","1","0",".","2">>,
    <<"2",".","1","0",".","2"," ">>,
    <<"2",".",".","2">> }

\* The names sorted lists are made of: versions (two of them equal but for
\* the build and the v), a prerelease, and names that are no version.
SortUniverse ==
  { <<"2",".","1","0",".","2">>,
    <<"v","2",".","1","0",".","2","+","b">>,
    <<"2",".","2",".","1","0">>,
    <<"2",".","1","0",".","2","-","a">>,
    <<"2",".","1","0">>,
    <<"x">> }

SemverCalls ==
  { [fn |-> "compareSemver", args |-> <<a, b>>] :
      a, b \in ValidVersions \cup InvalidVersions }
  \cup { [fn |-> "sortTagsBySemver", args |-> <<tags>>] :
           tags \in SeqsOf(SortUniverse, 0, MaxSortLen) }

\* No run of resolveLatestTag is in progress.
ResolverIdle ==
  /\ config = [type |-> "local", platform |-> "none", itemType |-> "tags"]
  /\ formatPatterns = NoFormat
  /\ repo = <<>>
  /\ pc = "idle"
  /\ itemNames = <<>>
  /\ filteredItemNames = <<>>
  /\ allItems = <<>>
  /\ filteredItems = <<>>
  /\ i = 0
  /\ attemptedPatterns = <<>>
  /\ outcome = Pending
  /\ warnings = <<>>
  /\ fetches = <<>>
  /\ evaluations = <<>>

resolverVars ==
  << config, formatPatterns, repo, pc, itemNames, filteredItemNames, allItems,
     filteredItems, i, attemptedPatterns, outcome, warnings, fetches, evaluations >>

SemverInit ==
  /\ ResolverIdle
  /\ call \in SemverCalls
  /\ returned = NotReturned

CallCompareSemver ==
  /\ call.fn = "compareSemver"
  /\ ~returned.done
  /\ returned' = ReturnedValue(compareSemver(call.args[1], call.args[2]))
  /\ UNCHANGED << call, resolverVars >>

\* The comparator (a, b) => compareSemver(b, a) of sortTagsBySemver.
sortComparator(a, b) == compareSemver(b, a)

\* Array.prototype.sort orders by the comparator only if it is a consistent
\* comparator for the values of the array: equality by the comparator is
\* transitive and compatible with "before" and "after".
ConsistentComparator(tags) ==
  \A a, b, c \in Range(tags) :
    /\ sortComparator(a, a) = 0
    /\ (sortComparator(a, b) < 0) = (sortComparator(b, a) > 0)
    /\ (sortComparator(a, b) = 0 /\ sortComparator(b, c) = 0)
         => sortComparator(a, c) = 0
    /\ (sortComparator(a, b) < 0 /\ sortComparator(b, c) < 0)
         => sortComparator(a, c) < 0
    /\ (sortComparator(a, b) = 0 /\ sortComparator(b, c) < 0)
         => sortComparator(a, c) < 0
    /\ (sortComparator(a, b) < 0 /\ sortComparator(b, c) = 0)
         => sortComparator(a, c) < 0

Rearrangements(tags) ==
  { [k \in 1..Len(tags) |-> tags[p[k]]] : p \in Permutations(1..Len(tags)) }

\* What [...tags].sort(comparator) can return: the stable ordering when the
\* comparator is consistent on the array, and otherwise an order that the
\* language leaves to the engine, of which only this much is fixed: it is a
\* rearrangement of the array.
sortTagsBySemverOutcomes(tags) ==
  IF ConsistentComparator(tags) THEN { sortTagsBySemver(tags) }
  ELSE Rearrangements(tags)

CallSortTagsBySemver ==
  /\ call.fn = "sortTagsBySemver"
  /\ ~returned.done
  /\ \E sorted \in sortTagsBySemverOutcomes(call.args[1]) :
       returned' = ReturnedValue(sorted)
  /\ UNCHANGED << call, resolverVars >>

SemverNext ==
  \/ CallCompareSemver
  \/ CallSortTagsBySemver

SemverSpec == SemverInit /\ [][SemverNext]_vars


(***************************************************************************)
(* Properties of compareSemver and sortTagsBySemver                        *)
(***************************************************************************)

ComparedValid ==
  /\ call.fn = "compareSemver"
  /\ returned.done
  /\ isSemver(call.args[1])
  /\ isSemver(call.args[2])

\* C11: on two valid semantic versions a and b, compareSemver(a, b) is the
\* negation of compareSemver(b, a), and compareSemver(a, a) is 0.
C11_AntisymmetricReflexive ==
  ComparedValid =>
    /\ returned.value = 0 - compareSemver(call.args[2], call.args[1])
    /\ call.args[1] = call.args[2] => returned.value = 0

\* Two different valid versions with equal numbers compared, the first one
\* the greater by its prerelease.
C11_Witness ==
  /\ ComparedValid
  /\ call.args[1] = <<"2",".","1","0",".","2","-","a">>
  /\ call.args[2] = <<"2",".","1","0",".","2","-","B">>
  /\ returned.value = 1

\* C12: compareSemver returns 0 whenever at least one of its inputs is not
\* a valid semantic version, whatever the other input is.
C12_UnparsedComparesEqual ==
  ( /\ call.fn = "compareSemver"
    /\ returned.done
    /\ ~isSemver(call.args[1]) \/ ~isSemver(call.args[2]) )
  => returned.value = 0

\* A valid version compared with a name that is no version.
C12_Witness ==
  /\ call.fn = "compareSemver"
  /\ returned.done
  /\ call.args[1] = <<"2",".","1","0",".","2">>
  /\ call.args[2] = <<"2",".","1","0">>
  /\ returned.value = 0

\* The parts of a valid version, read off its text without the pattern of
\* parseSemver: the build is what follows the first "+", the prerelease what
\* follows the first "-" before it, the numbers what the dots separate.
IndexOf(str, ch) ==
  IF \E k \in 1..Len(str) : str[k] = ch
  THEN CHOOSE k \in 1..Len(str) : str[k] = ch /\ \A j \in 1..(k - 1) : str[j] # ch
  ELSE Len(str) + 1

VersionParts(tag) ==
  LET body == IF tag[1] \in {"v", "V"} THEN Tail(tag) ELSE tag
      noBuild == Take(body, IndexOf(body, "+") - 1)
      core == Take(noBuild, IndexOf(noBuild, "-") - 1)
      pre == Drop(noBuild, IndexOf(noBuild, "-"))
      afterMajor == Drop(core, IndexOf(core, "."))
  IN [ numbers |-> << parseInt(Take(core, IndexOf(core, ".") - 1)),
                      parseInt(Take(afterMajor, IndexOf(afterMajor, ".") - 1)),
                      parseInt(Drop(afterMajor, IndexOf(afterMajor, "."))) >>,
       pre |-> pre ]

\* The order of C13 on the parts of two versions.
VersionOrder(x, y) ==
  LET differ == { k \in 1..3 : x.numbers[k] # y.numbers[k] }
      first == CHOOSE k \in differ : \A j \in differ : k <= j
  IN IF differ # {}
     THEN (IF x.numbers[first] > y.numbers[first] THEN 1 ELSE -1)
     ELSE IF x.pre = <<>> /\ y.pre = <<>> THEN 0
     ELSE IF x.pre = <<>> THEN 1
     ELSE IF y.pre = <<>> THEN -1
     ELSE IF StrLess(x.pre, y.pre) THEN -1
     ELSE IF StrLess(y.pre, x.pre) THEN 1
     ELSE 0

\* C13: two valid versions are ordered by major, minor and patch as
\* numbers; at equal numbers a version without a prerelease is the greater,
\* two prereleases are ordered as strings; the build and a leading v or V
\* change nothing.
C13_VersionOrder ==
  ComparedValid =>
    returned.value = VersionOrder(VersionParts(call.args[1]), VersionParts(call.args[2]))

\* Equal numbers, only the second with a prerelease, and the two names
\* differ in the v and in the build as well.
C13_Witness ==
  /\ ComparedValid
  /\ call.args[1] = <<"v","2",".","1","0",".","2","+","b">>
  /\ call.args[2] = <<"2",".","1","0",".","2","-","a">>
  /\ returned.value = 1

\* sorted is a rearrangement of tags.
IsRearrangement(sorted, tags) ==
  /\ Len(sorted) = Len(tags)
  /\ \A x \in Range(tags) \cup Range(sorted) :
       Cardinality({ k \in 1..Len(tags) : tags[k] = x })
         = Cardinality({ k \in 1..Len(sorted) : sorted[k] = x })

\* sorted holds the names of tags highest version first, names that compare
\* equal in the order they have in tags.
IsStableDescending(sorted, tags) ==
  /\ Len(sorted) = Len(tags)
  /\ \E p \in Permutations(1..Len(tags)) :
       /\ \A k \in 1..Len(tags) : sorted[k] = tags[p[k]]
       /\ \A k, l \in 1..Len(tags) :
            k < l => \/ compareSemver(sorted[k], sorted[l]) > 0
                     \/ compareSemver(sorted[k], sorted[l]) = 0 /\ p[k] < p[l]

NotSemver(tagName) == ~isSemver(tagName)

\* C14: sortTagsBySemver returns a rearrangement of its input in which the
\* names that are no version keep their input order and the versions stand
\* highest first relative to each other, equal ones in input order.
C14_SortMixed ==
  (call.fn = "sortTagsBySemver" /\ returned.done) =>
    /\ IsRearrangement(returned.value, call.args[1])
    /\ SelectSeq(returned.value, NotSemver) = SelectSeq(call.args[1], NotSemver)
    /\ IsStableDescending(SelectSeq(returned.value, isSemver),
                          SelectSeq(call.args[1], isSemver))


(***************************************************************************)
(* src/src/format-matcher.ts called directly                               *)
(***************************************************************************)

MaxTagLen == 5
MaxFilterLen == 2

\* Tag names: every string of a digit, the dot, the letter v and the hyphen
\* up to MaxTagLen characters, the empty name included.
TagAlphabet == { "1", ".", "v", "-" }
TagStrings == SeqsOf(TagAlphabet, 0, MaxTagLen)

SimplePatterns ==
  { <<"X",".","X">>, <<"v","X",".","X">>, <<"X",".","X",".","X">> }

WildcardPatterns ==
  { <<"*">>, <<"*",".","*">>, <<"*",".","*",".","*">>, <<"v","*",".","*">> }

LiteralPatterns == { <<"1",".","1">>, <<"v","1">> }

\* Regex patterns: anchored, not anchored, between slashes, and one that
\* does not compile.
RegexPatterns ==
  { <<"^","1","+","$">>, <<"v","?","1","+">>, <<"/","1",".","1","/">>, <<"(">> }

FormatUniverse ==
  { <<>> } \cup SimplePatterns \cup WildcardPatterns \cup LiteralPatterns
  \cup { p \in RegexPatterns : InRegexFragment(regexPatternSource(p)) }

FilterUniverse ==
  { <<"1",".","1">>, <<"1",".","1","-","v">>, <<"1",".","1",".","1">>,
    <<"v","1">>, <<"1","1","1">> }

MatcherCalls ==
  { [fn |-> "matchTagFormat", args |-> <<tagName, format>>] :
      tagName \in TagStrings, format \in FormatUniverse }
  \cup { [fn |-> "convertSimplePatternToRegex", args |-> <<format, str>>] :
           format \in SimplePatterns, str \in TagStrings }
  \cup { [fn |-> "filterTagsByFormat", args |-> <<tagNames, format>>] :
           tagNames \in SeqsOf(FilterUniverse, 0, MaxFilterLen),
           format \in FormatUniverse }

MatcherInit ==
  /\ ResolverIdle
  /\ call \in MatcherCalls
  /\ returned = NotReturned

CallMatchTagFormat ==
  /\ call.fn = "matchTagFormat"
  /\ ~returned.done
  /\ returned' = ReturnedValue(matchTagFormat(call.args[1], call.args[2]))
  /\ UNCHANGED << call, resolverVars >>

\* convertSimplePatternToRegex(format).test(str)
CallConvertSimplePatternToRegex ==
  /\ call.fn = "convertSimplePatternToRegex"
  /\ ~returned.done
  /\ returned' = ReturnedValue(RegExpTest(convertSimplePatternToRegex(call.args[1]),
                                          call.args[2]))
  /\ UNCHANGED << call, resolverVars >>

CallFilterTagsByFormat ==
  /\ call.fn = "filterTagsByFormat"
  /\ ~returned.done
  /\ returned' = ReturnedValue(filterTagsByFormat(call.args[1], call.args[2]))
  /\ UNCHANGED << call, resolverVars >>

MatcherNext ==
  \/ CallMatchTagFormat
  \/ CallConvertSimplePatternToRegex
  \/ CallFilterTagsByFormat

MatcherSpec == MatcherInit /\ [][MatcherNext]_vars


(***************************************************************************)
(* Properties of the format matcher                                        *)
(***************************************************************************)

\* The parts of str between its dots.
RECURSIVE SplitDots(_)
SplitDots(str) ==
  IF IndexOf(str, ".") > Len(str) THEN <<str>>
  ELSE <<Take(str, IndexOf(str, ".") - 1)>> \o SplitDots(Drop(str, IndexOf(str, ".")))

\* str is exactly k runs of decimal digits with a dot between them.
IsDigitRuns(str, k) ==
  LET segments == SplitDots(str)
  IN /\ Len(segments) = k
     /\ \A n \in 1..k :
          segments[n] # <<>> /\ \A m \in 1..Len(segments[n]) : segments[n][m] \in Digits

PlaceholderCount(format) ==
  Cardinality({ n \in 1..Len(format) : format[n] \in {"X", "x"} })

\* str is the v of the simple pattern, if it has one, and then as many
\* dot-separated digit runs as the pattern has placeholders.
SimpleShape(str, format) ==
  IF format[1] \in {"v", "V"}
  THEN str # <<>> /\ str[1] = format[1]
       /\ IsDigitRuns(Tail(str), PlaceholderCount(format))
  ELSE IsDigitRuns(str, PlaceholderCount(format))

\* C15: the regex of a simple pattern with k placeholders matches a string
\* in full only when the string is the v of the pattern (if any) and then
\* exactly k runs of digits separated by dots; a string with another
\* character where a dot belongs, or with no dot at all, is not matched.
C15_SimplePatternShape ==
  ( /\ call.fn = "convertSimplePatternToRegex"
    /\ returned.done
    /\ returned.value )
  => SimpleShape(call.args[2], call.args[1])

\* The longest leading part of tagName that is an optional v and then runs
\* of digits separated by dots; "" when there is none.
NumericRun(tagName) ==
  LET lengths == { n \in 1..Len(tagName) :
                     LET lead == Take(tagName, n)
                         body == IF lead[1] = "v" THEN Tail(lead) ELSE lead
                     IN body # <<>> /\ IsDigitRuns(body, Len(SplitDots(body))) }
  IN IF lengths = {} THEN <<>>
     ELSE Take(tagName, CHOOSE n \in lengths : \A m \in lengths : m <= n)

\* C16: for a simple pattern, matchTagFormat is true exactly when the whole
\* tag, or else its longest leading numeric run, has the shape of the
\* pattern; the run is never cut down to the pattern's number of segments.
C16_GreedyPrefix ==
  ( /\ call.fn = "matchTagFormat"
    /\ returned.done
    /\ call.args[2] \in SimplePatterns )
  => returned.value =
       ( \/ SimpleShape(call.args[1], call.args[2])
         \/ /\ NumericRun(call.args[1]) # <<>>
            /\ SimpleShape(NumericRun(call.args[1]), call.args[2]) )


SegmentCount(format) == Cardinality({ n \in 1..Len(format) : format[n] = "*" })

\* str is the v of the wildcard pattern, if it has one, and then as many
\* dot-separated runs of non-dot characters as the pattern has segments.
SegmentShape(str, format) ==
  IF format[1] \in {"v", "V"}
  THEN str # <<>> /\ str[1] = format[1]
       /\ Len(SplitDots(Tail(str))) = SegmentCount(format)
  ELSE Len(SplitDots(str)) = SegmentCount(format)

\* str is two or more runs of letters and digits with a dot between them.
IsAlnumDotted(str) ==
  LET segments == SplitDots(str)
  IN /\ Len(segments) >= 2
     /\ \A n \in 1..Len(segments) :
          segments[n] # <<>> /\ \A m \in 1..Len(segments[n]) : segments[n][m] \in Alnum

\* The longest leading part of tagName that is alphanumeric and dotted; ""
\* when there is none.
AlnumRun(tagName) ==
  LET lengths == { n \in 1..Len(tagName) : IsAlnumDotted(Take(tagName, n)) }
  IN IF lengths = {} THEN <<>>
     ELSE Take(tagName, CHOOSE n \in lengths : \A m \in lengths : m <= n)

\* C17: for a wildcard pattern with k segments a tag matches when its
\* alphanumeric dotted prefix, or else the full tag, is k dot-separated runs
\* of non-dot characters; a tag without a dot has no prefix, matches "*" and
\* no pattern of two or more segments; a tag of three dot-separated
\* alphanumeric segments does not match "*.*".
C17_WildcardSegments ==
  ( /\ call.fn = "matchTagFormat"
    /\ returned.done
    /\ call.args[2] \in WildcardPatterns
    /\ call.args[1] # <<>> )
  => LET tagName == call.args[1]
         format == call.args[2]
         prefix == AlnumRun(tagName)
     IN /\ returned.value = ( \/ prefix # <<>> /\ SegmentShape(prefix, format)
                              \/ SegmentShape(tagName, format) )
        /\ Len(SplitDots(tagName)) = 1 =>
             /\ prefix = <<>>
             /\ format = <<"*">> => returned.value
             /\ SegmentCount(format) >= 2 => ~returned.value
        /\ (IsAlnumDotted(tagName) /\ Len(SplitDots(tagName)) = 3
              /\ format = <<"*",".","*">>) => ~returned.value

\* A tag that matches "*.*" through its prefix only: the full tag has two dots.
C17_Witness ==
  /\ call.fn = "matchTagFormat"
  /\ returned.done
  /\ call.args[1] = <<"1",".","1","-",".">>
  /\ call.args[2] = <<"*",".","*">>
  /\ returned.value


\* C18: for a literal pattern, matchTagFormat is true when the full tag is
\* the pattern and also when it is not but the numeric prefix of the tag is.
C18_LiteralPrefix ==
  ( /\ call.fn = "matchTagFormat"
    /\ returned.done
    /\ call.args[2] \in LiteralPatterns
    /\ call.args[1] # <<>> )
  => returned.value =
       ( \/ call.args[1] = call.args[2]
         \/ NumericRun(call.args[1]) = call.args[2] )

\* The positions of tagNames whose name matches format.
MatchingPositions(tagNames, format) ==
  { k \in 1..Len(tagNames) : matchTagFormat(tagNames[k], format) }

\* kept holds the names of tagNames at the positions of set keep, in order.
IsSelection(kept, tagNames, keep) ==
  /\ Len(kept) = Cardinality(keep)
  /\ \A k \in keep :
       kept[Cardinality({ j \in keep : j <= k })] = tagNames[k]

\* C19: filterTagsByFormat with a non-empty format returns the names of its
\* input that satisfy matchTagFormat, in input order and nothing else; with
\* an empty format it returns its input; matchTagFormat is false for an
\* empty format and for an empty tag name.
C19_FilterIsSubsequence ==
  /\ (call.fn = "filterTagsByFormat" /\ returned.done) =>
       IF call.args[2] = <<>>
       THEN returned.value = call.args[1]
       ELSE IsSelection(returned.value, call.args[1],
                        MatchingPositions(call.args[1], call.args[2]))
  /\ ( /\ call.fn = "matchTagFormat"
       /\ returned.done
       /\ call.args[1] = <<>> \/ call.args[2] = <<>> )
     => ~returned.value

\* Of two names the first is dropped and the second kept.
C19_Witness ==
  /\ call.fn = "filterTagsByFormat"
  /\ returned.done
  /\ call.args[1] = << <<"1",".","1",".","1">>, <<"1",".","1","-","v">> >>
  /\ call.args[2] = <<"X",".","X">>
  /\ returned.value = << <<"1",".","1","-","v">> >>

\* A regex-classified pattern whose source new RegExp rejects.
DoesNotCompile(format) ==
  /\ ~isSimplePattern(format)
  /\ ~isWildcardPattern(format)
  /\ isRegexPattern(format)
  /\ RegExp(regexPatternSource(format)) = Null

\* C20: a pattern that does not compile selects no candidate, the pattern
\* after it is tried next, and when it is the last of a list of which no
\* pattern matches, the run ends with the no-pattern-match error.
C20_InvalidRegexNeverMatches ==
  /\ \A n \in 1..Len(evaluations) :
       LET e == evaluations[n]
       IN DoesNotCompile(formatPatterns.list[e.pattern]) =>
            /\ e.matched = 0
            /\ e.pattern < Len(formatPatterns.list) =>
                 IF n = Len(evaluations)
                 THEN pc = e.context /\ i = e.pattern + 1
                 ELSE /\ evaluations[n + 1].context = e.context
                      /\ evaluations[n + 1].pattern = e.pattern + 1
  /\ ( /\ pc = "done"
       /\ formatPatterns.defined
       /\ DoesNotCompile(formatPatterns.list[Len(formatPatterns.list)])
       /\ CandidateNames # <<>>
       /\ FirstMatchingPattern(formatPatterns.list, CandidateNames) = 0 )
     => /\ outcome.kind = "threw"
        /\ IsNoPatternMatchError(outcome.value, formatPatterns.list)


(***************************************************************************)
(* Properties of resolveLatestTag: requests and termination                *)
(***************************************************************************)

IsLocalRelease == config.type = "local" /\ config.itemType = "release"

\* C24: a run for releases of a local repository lists nothing, returns no
\* name, and ends with the releases-not-supported error.
C24_LocalReleaseRejected ==
  IsLocalRelease =>
    /\ fetches = <<>>
    /\ outcome.kind # "returned"
    /\ pc = "done" => outcome = Threw(TxtReleasesLocal)

\* A finished run for releases of a local repository that holds tags.
C24_Witness ==
  /\ IsLocalRelease
  /\ repo # <<>>
  /\ pc = "done"
  /\ outcome.kind = "threw"

\* The names-only fetch of the run succeeded and its working set holds a
\* semantic version.
FastPathApplies ==
  /\ UsesOptimizedPath(config)
  /\ fetches # <<>>
  /\ ~fetches[1].failed
  /\ LET working == WorkingNames(itemNames)
     IN \E n \in 1..Len(working) : isSemver(working[n])

\* C25: when the names-only fetch of a GitHub tag run succeeds and the
\* (filtered) names hold a semantic version, the run returns a name and the
\* dated fetch is never invoked.
C25_FastPathShortCircuit ==
  FastPathApplies =>
    /\ Len(fetches) = 1
    /\ pc \notin {"items_fetch", "full_filter", "full_select"}
    /\ pc = "done" => outcome.kind = "returned"

\* A finished fast-path run whose format dropped one of the names.
C25_Witness ==
  /\ FastPathApplies
  /\ pc = "done"
  /\ formatPatterns.defined
  /\ Len(filteredItemNames) < Len(itemNames)
  /\ outcome.kind = "returned"

RequestsOf(what) == { n \in 1..Len(fetches) : fetches[n].what = what }

FairSpec == Spec /\ WF_vars(Next)

\* The positions of resolveLatestTag in the order the code reaches them.
PositionRank(position) ==
  CASE position = "start" -> 0
    [] position = "names_fetch" -> 1
    [] position = "fast_filter" -> 2
    [] position = "fast_semver" -> 3
    [] position = "items_fetch" -> 4
    [] position = "full_filter" -> 5
    [] position = "full_select" -> 6
    [] position = "done" -> 7

\* The ways a run ends: a name by version (on either path), by date or
\* alphabetically, or a throw.
TerminalKinds == { "semver-optimized", "semver", "date", "alphabetical", "throw" }

ThirdVersions ==
  { core \o pre :
      core \in { <<"2",".","1","0",".","2">>, <<"2",".","2",".","1","0">>,
                 <<"1","0",".","2",".","2">> },
      pre \in PrereleaseSuffixes }
  \cup { <<"v","2",".","1","0",".","2","+","b">>, <<"V","2",".","1","0",".","2">> }

\* C29: on valid versions a, b, c: when compareSemver(a, b) and
\* compareSemver(b, c) are both at least 0, so is compareSemver(a, c), and
\* when both are 0, so is compareSemver(a, c).
C29_Transitive ==
  ComparedValid =>
    \A c \in ThirdVersions :
      LET ab == returned.value
          bc == compareSemver(call.args[2], c)
          ac == compareSemver(call.args[1], c)
      IN /\ (ab >= 0 /\ bc >= 0) => ac >= 0
         /\ (ab = 0 /\ bc = 0) => ac = 0

\* A release compared equal to another spelling of it, which is above its
\* prerelease: the chain a = b > c.
C29_Witness ==
  /\ ComparedValid
  /\ call.args[1] = <<"2",".","1","0",".","2">>
  /\ call.args[2] = <<"v","2",".","1","0",".","2","+","b">>
  /\ returned.value = 0
  /\ \E c \in ThirdVersions :
       /\ compareSemver(call.args[2], c) > 0
       /\ compareSemver(call.args[1], c) > 0


\* The semver module as it is used: called directly, or from a run of
\* resolveLatestTag.
VersionsSpec == (Init \/ SemverInit) /\ [][Next \/ SemverNext]_vars

\* The positions of the greatest versions of a list of names.
GreatestVersions(tagNames) ==
  { k \in 1..Len(tagNames) :
      /\ isSemver(tagNames[k])
      /\ \A l \in 1..Len(tagNames) :
           isSemver(tagNames[l]) => compareSemver(tagNames[k], tagNames[l]) >= 0 }

\* C30: on a list of valid versions sortTagsBySemver returns a rearrangement
\* of the list, highest first, names that compare equal in their input
\* order, and the list it was given is not changed; and a run that returns
\* by version returns, of the greatest versions of its working set, the one
\* that comes first in the candidate order.
C30_SortStable ==
  /\ []( ( /\ call.fn = "sortTagsBySemver"
           /\ returned.done
           /\ \A k \in 1..Len(call.args[1]) : isSemver(call.args[1][k]) )
         => /\ IsRearrangement(returned.value, call.args[1])
            /\ IsStableDescending(returned.value, call.args[1]) )
  /\ [][ call.fn = "sortTagsBySemver" => call' = call ]_vars
  /\ []( (pc = "done" /\ outcome.by \in {"semver", "semver-optimized"})
         => LET working == WorkingNames(CandidateNames)
                greatest == GreatestVersions(working)
            IN /\ greatest # {}
               /\ \E k \in greatest :
                    /\ outcome.value = working[k]
                    /\ \A l \in greatest : k <= l )

\* Two spellings of the greatest version after a lower one: the sort moves
\* both before it and keeps them in their input order.
C30_Witness ==
  /\ call.fn = "sortTagsBySemver"
  /\ returned.done
  /\ call.args[1] = << <<"2",".","2",".","1","0">>,
                       <<"v","2",".","1","0",".","2","+","b">>,
                       <<"2",".","1","0",".","2">> >>
  /\ returned.value = << <<"v","2",".","1","0",".","2","+","b">>,
                         <<"2",".","1","0",".","2">>,
                         <<"2",".","2",".","1","0">> >>


(***************************************************************************)
(* src/dist/format-parser.js: parseTagFormat                               *)
(***************************************************************************)

\* 'JSON array must contain at least one non-empty pattern'
TxtJsonEmpty ==
  <<"J","S","O","N"," ","a","r","r","a","y"," ","m","u","s","t"," ","c","o",
    "n","t","a","i","n"," ","a","t"," ","l","e","a","s","t"," ","o","n","e",
    " ","n","o","n","-","e","m","p","t","y"," ","p","a","t","t","e","r","n">>

\* 'JSON input must be an array'
TxtJsonNotArray ==
  <<"J","S","O","N"," ","i","n","p","u","t"," ","m","u","s","t"," ","b","e",
    " ","a","n"," ","a","r","r","a","y">>

\* `Invalid JSON array format for tag_format: ` (the engine's message and
\* the expected format follow)
TxtInvalidJson ==
  <<"I","n","v","a","l","i","d"," ","J","S","O","N"," ","a","r","r","a","y",
    " ","f","o","r","m","a","t"," ","f","o","r"," ","t","a","g","_","f","o",
    "r","m","a","t",":"," ">>

\* 'Comma-separated tag_format must contain at least one non-empty pattern'
TxtCommaEmpty ==
  <<"C","o","m","m","a","-","s","e","p","a","r","a","t","e","d"," ","t","a",
    "g","_","f","o","r","m","a","t"," ","m","u","s","t"," ","c","o","n","t",
    "a","i","n"," ","a","t"," ","l","e","a","s","t"," ","o","n","e"," ","n",
    "o","n","-","e","m","p","t","y"," ","p","a","t","t","e","r","n">>

\* The white space of String.prototype.trim and of JSON among the modelled
\* characters.
WhiteSpace == { " " }

RECURSIVE trimEnd(_)
trimEnd(str) ==
  IF str # <<>> /\ str[Len(str)] \in WhiteSpace THEN trimEnd(Take(str, Len(str) - 1))
  ELSE str

\* str.trim()
trim(str) == trimEnd(Drop(str, RunLen(str, WhiteSpace)))

\* str.split(sep) for a one-character separator: the pieces between the
\* separators, empty ones included.
RECURSIVE split(_, _)
split(str, sep) ==
  CHOOSE pieces \in
    { IF n = Len(str) THEN <<str>>
      ELSE <<Take(str, n)>> \o split(Drop(str, n + 1), sep) :
        n \in { RunLen(str, AsciiSet \ {sep}) } } : TRUE

\* The values of JSON.parse: strings, numbers and arrays.  Escapes in
\* strings, fractions, exponents, signs, objects and the literals true,
\* false and null are outside the modelled fragment, whose texts hold none
\* of their characters.
JsonString(chars) == [type |-> "string", value |-> chars]
JsonNumber(digits) == [type |-> "number", value |-> digits]
JsonArray(items) == [type |-> "array", value |-> items]

\* The result of reading a value at the head of a text: the value and the
\* text after it, or a SyntaxError.
JsonRead(value, rest) == [ok |-> TRUE, value |-> value, rest |-> rest]
JsonSyntaxError == [ok |-> FALSE, value |-> JsonString(<<>>), rest |-> <<>>]

skipWhiteSpace(text) == Drop(text, RunLen(text, WhiteSpace))

\* A string after its opening quote: the characters up to the next quote.
jsonString(text) ==
  CHOOSE read \in
    { IF n < Len(text) THEN JsonRead(JsonString(Take(text, n)), Drop(text, n + 1))
      ELSE JsonSyntaxError :
        n \in { RunLen(text, AsciiSet \ {"\"", "\\"}) } } : TRUE

\* An integer: 0, or digits that do not start with 0.
jsonNumber(text) ==
  CHOOSE read \in
    { JsonRead(JsonNumber(Take(text, n)), Drop(text, n)) :
        n \in { IF text[1] = "0" THEN 1 ELSE RunLen(text, Digits) } } : TRUE

RECURSIVE jsonValue(_)
RECURSIVE jsonElements(_, _)

\* What follows an element of an array whose elements so far are items: a
\* comma and the next element, or the closing bracket.
jsonAfterElement(text, items) ==
  IF text = <<>> THEN JsonSyntaxError
  ELSE IF text[1] = "," THEN jsonElements(Tail(text), items)
  ELSE IF text[1] = "]" THEN JsonRead(JsonArray(items), Tail(text))
  ELSE JsonSyntaxError

\* The elements of an array from the next element on.
jsonElements(text, items) ==
  CHOOSE read \in
    { IF element.ok
      THEN jsonAfterElement(skipWhiteSpace(element.rest), Append(items, element.value))
      ELSE JsonSyntaxError :
        element \in { jsonValue(text) } } : TRUE

\* An array after its opening bracket.
jsonArray(text) ==
  IF text # <<>> /\ text[1] = "]" THEN JsonRead(JsonArray(<<>>), Tail(text))
  ELSE jsonElements(text, <<>>)

\* A value at the head of a text that starts with no white space.
jsonValueAt(text) ==
  IF text = <<>> THEN JsonSyntaxError
  ELSE IF text[1] = "[" THEN jsonArray(skipWhiteSpace(Tail(text)))
  ELSE IF text[1] = "\"" THEN jsonString(Tail(text))
  ELSE IF text[1] \in Digits THEN jsonNumber(text)
  ELSE JsonSyntaxError

jsonValue(text) ==
  CHOOSE read \in { jsonValueAt(start) : start \in { skipWhiteSpace(text) } } : TRUE

\* JSON.parse(text): the value the whole text denotes, or a SyntaxError.
JSONparse(text) ==
  CHOOSE parsed \in
    { IF read.ok /\ skipWhiteSpace(read.rest) = <<>> THEN read ELSE JsonSyntaxError :
        read \in { jsonValue(text) } } : TRUE

\* String(item): a string is itself, an integer its digits, an array its
\* elements as strings joined by commas.
RECURSIVE StringOf(_)
StringOf(item) ==
  IF item.type = "array"
  THEN join([k \in 1..Len(item.value) |-> StringOf(item.value[k])], <<",">>)
  ELSE item.value

NonEmpty(item) == Len(item) > 0

\* The results of parseTagFormat.
NoFiltering == [kind |-> "undefined", value |-> <<>>]
Patterns(list) == [kind |-> "patterns", value |-> list]
ParseFailure(message) == [kind |-> "threw", value |-> message]

\* An argument of parseTagFormat: a string, or undefined.
NoInput == [defined |-> FALSE, text |-> <<>>]
Input(text) == [defined |-> TRUE, text |-> text]

\* Lines 30-36: the patterns of a parsed array.
parseJsonArray(items) ==
  CHOOSE result \in
    { IF patterns = <<>> THEN ParseFailure(TxtJsonEmpty) ELSE Patterns(patterns) :
        patterns \in
          { SelectSeq([k \in 1..Len(items) |-> trim(StringOf(items[k]))], NonEmpty) } } : TRUE

\* Lines 25-46: the JSON form.
parseJsonForm(trimmed) ==
  CHOOSE result \in
    { IF ~parsed.ok THEN ParseFailure(TxtInvalidJson)
      ELSE IF parsed.value.type # "array" THEN ParseFailure(TxtJsonNotArray)
      ELSE parseJsonArray(parsed.value.value) :
        parsed \in { JSONparse(trimmed) } } : TRUE

\* parseCommaForm that does not trim the pieces.
parseCommaFormUntrimmed(trimmed) ==
  CHOOSE result \in
    { IF patterns = <<>> THEN ParseFailure(TxtCommaEmpty) ELSE Patterns(patterns) :
        patterns \in { SelectSeq(split(trimmed, ","), NonEmpty) } } : TRUE

\* Lines 48-57: the comma form.
parseCommaForm(trimmed) ==
  CHOOSE result \in
    { IF patterns = <<>> THEN ParseFailure(TxtCommaEmpty) ELSE Patterns(patterns) :
        patterns \in
          { SelectSeq([k \in 1..Len(pieces) |-> trim(pieces[k])], NonEmpty) :
              pieces \in { split(trimmed, ",") } } } : TRUE

\* parseTagFormat with the comma form tried before the JSON form.
parseTagFormatCommaFirst(input) ==
  IF ~input.defined \/ input.text = <<>> \/ trim(input.text) = <<>> THEN NoFiltering
  ELSE CHOOSE result \in
    { IF includes(trimmed, <<",">>) THEN parseCommaForm(trimmed)
      ELSE IF startsWith(trimmed, <<"[">>) /\ endsWith(trimmed, <<"]">>)
      THEN parseJsonForm(trimmed)
      ELSE Patterns(<<trimmed>>) :
        trimmed \in { trim(input.text) } } : TRUE

parseTagFormat(input) ==
  IF ~input.defined \/ input.text = <<>> \/ trim(input.text) = <<>> THEN NoFiltering
  ELSE CHOOSE result \in
    { IF startsWith(trimmed, <<"[">>) /\ endsWith(trimmed, <<"]">>)
      THEN parseJsonForm(trimmed)
      ELSE IF includes(trimmed, <<",">>) THEN parseCommaForm(trimmed)
      ELSE Patterns(<<trimmed>>) :
        trimmed \in { trim(input.text) } } : TRUE

(***************************************************************************)
(* parseTagFormat called directly                                          *)
(***************************************************************************)

MaxTokens == 5

\* The pieces inputs are made of: white space, the comma, the brackets, a
\* bare pattern, a number, and two JSON strings, one of them with a comma
\* and white space inside.
InputTokens ==
  { <<" ">>, <<",">>, <<"[">>, <<"]">>, <<"X">>, <<"1">>,
    <<"\"","X","\"">>, <<"\""," ","X",",","X"," ","\"">> }

RECURSIVE concat(_)
concat(parts) == IF parts = <<>> THEN <<>> ELSE parts[1] \o concat(Tail(parts))

\* Every text of up to MaxTokens pieces.
InputTexts == { concat(parts) : parts \in SeqsOf(InputTokens, 0, MaxTokens) }

ParserCalls ==
  { [fn |-> "parseTagFormat", args |-> <<input>>] :
      input \in {NoInput} \cup { Input(text) : text \in InputTexts } }

ParserInit ==
  /\ ResolverIdle
  /\ call \in ParserCalls
  /\ returned = NotReturned

CallParseTagFormat ==
  /\ call.fn = "parseTagFormat"
  /\ ~returned.done
  /\ returned' = ReturnedValue(parseTagFormat(call.args[1]))
  /\ UNCHANGED << call, resolverVars >>

ParserNext == CallParseTagFormat

ParserSpec == ParserInit /\ [][ParserNext]_vars


(***************************************************************************)
(* Properties of parseTagFormat                                            *)
(***************************************************************************)

Parsed == call.fn = "parseTagFormat" /\ returned.done

Blank(str) == \A k \in 1..Len(str) : str[k] \in WhiteSpace

\* C21: the result of parseTagFormat is undefined, a failure or a list of
\* patterns; undefined exactly when the input is absent, empty or white
\* space only; and a list holds at least one pattern, each non-empty and
\* with no white space at either end.
C21_ParseResult ==
  Parsed =>
    LET input == call.args[1]
        result == returned.value
    IN /\ result.kind \in {"undefined", "threw", "patterns"}
       /\ (result.kind = "undefined") = (~input.defined \/ Blank(input.text))
       /\ result.kind = "patterns" =>
            /\ Len(result.value) >= 1
            /\ \A k \in 1..Len(result.value) :
                 LET pattern == result.value[k]
                 IN /\ pattern # <<>>
                    /\ pattern[1] \notin WhiteSpace
                    /\ pattern[Len(pattern)] \notin WhiteSpace

\* A comma form whose pieces are surrounded by white space.
C21_Witness ==
  /\ Parsed
  /\ call.args[1] = Input(<<"X"," ",","," ","X">>)
  /\ returned.value = Patterns(<< <<"X">>, <<"X">> >>)

\* The trimmed text of the input has the JSON form.
Bracketed(text) ==
  LET trimmed == trim(text)
  IN trimmed # <<>> /\ trimmed[1] = "[" /\ trimmed[Len(trimmed)] = "]"

\* The pieces of text between its commas, from left to right.
PiecesBetweenCommas(text) ==
  LET commas == { k \in 1..Len(text) : text[k] = "," }
      bounds == commas \cup {0, Len(text) + 1}
      Starts == bounds \ {Len(text) + 1}
      NextBound(k) == CHOOSE b \in bounds : b > k /\ \A c \in bounds : c > k => b <= c
      Nth(n) == CHOOSE k \in Starts : Cardinality({ j \in Starts : j <= k }) = n
  IN [n \in 1..Cardinality(Starts) |-> SubSeq(text, Nth(n) + 1, NextBound(Nth(n)) - 1)]

\* C22: an input whose trimmed text starts with "[" and ends with "]" is
\* read as JSON only: it fails, or its patterns are the non-blank elements
\* of the array, each as a trimmed string, in the order of the array, so
\* that a comma in a string element stays in its pattern; any other input
\* with a comma gives its non-blank pieces between the commas, trimmed, from
\* left to right.
C22_JsonBeforeCommas ==
  (Parsed /\ call.args[1].defined /\ returned.value.kind = "patterns") =>
    LET text == call.args[1].text
        patterns == returned.value.value
    IN IF Bracketed(text)
       THEN LET parsed == JSONparse(trim(text))
                elements == [k \in 1..Len(parsed.value.value) |->
                               trim(StringOf(parsed.value.value[k]))]
            IN /\ parsed.ok
               /\ parsed.value.type = "array"
               /\ IsSelection(patterns, elements,
                              { k \in 1..Len(elements) : elements[k] # <<>> })
       ELSE IF \E k \in 1..Len(text) : text[k] = ","
       THEN LET pieces == PiecesBetweenCommas(text)
                trimmed == [k \in 1..Len(pieces) |-> trim(pieces[k])]
            IN IsSelection(patterns, trimmed,
                           { k \in 1..Len(trimmed) : trimmed[k] # <<>> })
       ELSE patterns = << trim(text) >>

\* A JSON array of two strings, the second with a comma and white space
\* inside: two patterns, in the order of the array.
C22_Witness ==
  /\ Parsed
  /\ call.args[1] =
       Input(<<"[","\"","X","\"",",","\""," ","X",",","X"," ","\"","]">>)
  /\ returned.value = Patterns(<< <<"X">>, <<"X",",","X">> >>)


(***************************************************************************)
(* src/src/repo-detector.ts: detectRepository                              *)
(***************************************************************************)

TxtHttp == <<"h","t","t","p",":","/","/">>
TxtHttps == <<"h","t","t","p","s",":","/","/">>
TxtGitAt == <<"g","i","t","@">>
TxtGithubCom == <<"g","i","t","h","u","b",".","c","o","m">>
TxtBitbucketOrg == <<"b","i","t","b","u","c","k","e","t",".","o","r","g">>
TxtDotGit == <<".","g","i","t">>

\* `Unsupported platform: `
TxtUnsupportedPlatform ==
  <<"U","n","s","u","p","p","o","r","t","e","d"," ","p","l","a","t","f","o",
    "r","m",":"," ">>

\* `. Supported: github, gitea, bitbucket`
TxtSupported ==
  <<"."," ","S","u","p","p","o","r","t","e","d",":"," ","g","i","t","h","u",
    "b",","," ","g","i","t","e","a",","," ","b","i","t","b","u","c","k","e",
    "t">>

\* `Failed to parse `, ` URL: `
TxtFailedToParse ==
  <<"F","a","i","l","e","d"," ","t","o"," ","p","a","r","s","e"," ">>

TxtUrlColon == <<" ","U","R","L",":"," ">>

\* 'Repository not specified. Provide either repository (URL or path), or
\* platform/owner/repo inputs, or run in GitHub Actions context.'
TxtRepositoryNotSpecified ==
  <<"R","e","p","o","s","i","t","o","r","y"," ","n","o","t"," ","s","p","e",
    "c","i","f","i","e","d","."," ","P","r","o","v","i","d","e"," ","e","i",
    "t","h","e","r"," ","r","e","p","o","s","i","t","o","r","y"," ","(","U",
    "R","L"," ","o","r"," ","p","a","t","h",")",","," ","o","r"," ","p","l",
    "a","t","f","o","r","m","/","o","w","n","e","r","/","r","e","p","o"," ",
    "i","n","p","u","t","s",","," ","o","r"," ","r","u","n"," ","i","n"," ",
    "G","i","t","H","u","b"," ","A","c","t","i","o","n","s"," ","c","o","n",
    "t","e","x","t",".">>

\* The values of the Platform enumeration.
PlatformValues == { <<"g","i","t","h","u","b">>, <<"g","i","t","e","a">>, <<"b","i","t","b","u","c","k","e","t">> }

\* An optional string is truthy when it is given and not empty.
Given(optional) == optional.defined /\ optional.text # <<>>

\* str.toLowerCase() on letters.
toLowerCase(str) ==
  [k \in 1..Len(str) |->
     IF str[k] \in Upper THEN Ascii[charCode(str[k]) + 32 - 31] ELSE str[k]]

\* str.replace(/^prefix/, '')
stripPrefix(str, prefix) == IF startsWith(str, prefix) THEN Drop(str, Len(prefix)) ELSE str

\* str.replace(/^https?:\/\//, '')
stripProtocol(str) == stripPrefix(stripPrefix(str, TxtHttps), TxtHttp)

\* str.replace(/\.git$/, '')
stripDotGit(str) == IF endsWith(str, TxtDotGit) THEN Take(str, Len(str) - 4) ELSE str

\* str.replace(part, ''): the first occurrence of part removed.
removeFirst(str, part) ==
  LET at == { k \in 0..(Len(str) - Len(part)) : SubSeq(str, k + 1, k + Len(part)) = part }
  IN IF at = {} THEN str
     ELSE CHOOSE result \in
            { Take(str, k) \o Drop(str, k + Len(part)) :
                k \in { CHOOSE first \in at : \A other \in at : first <= other } } : TRUE

isUrl(repository) ==
  \/ startsWith(repository, TxtHttp)
  \/ startsWith(repository, TxtHttps)
  \/ startsWith(repository, TxtGitAt)

NotSlash == AsciiSet \ {"/"}

\* The match of ([^\/]+)\/([^\/]+?)(?:\.git)?(?:\/.*)?$ on path, or of the
\* same without (?:\/.*)? when no tail is allowed: owner is the run before
\* the first "/", the lazy second group is the next run without one ".git"
\* at its end if more than that is left, and the result drops a further
\* ".git" (replace(/\.git$/, '')).  Null when there is no match.
ownerAndRepoOf(path, n1, m, tailAllowed) ==
  IF /\ n1 >= 1 /\ Len(path) > n1 /\ m >= 1
     /\ (tailAllowed \/ Len(path) = n1 + 1 + m)
  THEN [ owner |-> Take(path, n1),
         repo |-> stripDotGit(IF m > 4 /\ endsWith(SubSeq(path, n1 + 2, n1 + 1 + m), TxtDotGit)
                              THEN SubSeq(path, n1 + 2, n1 + 1 + m - 4)
                              ELSE SubSeq(path, n1 + 2, n1 + 1 + m)) ]
  ELSE Null

ownerAndRepoAfter(path, n1, tailAllowed) ==
  ownerAndRepoOf(path, n1, RunLen(Drop(path, n1 + 1), NotSlash), tailAllowed)

ownerAndRepo(path, tailAllowed) ==
  CHOOSE parsed \in
    { ownerAndRepoAfter(p, RunLen(p, NotSlash), tailAllowed) : p \in { path } } : TRUE

\* The two patterns of parseGitHubUrl and parseBitbucketUrl for a host: the
\* http(s) form, which lets a path follow, then the git@ form, which does not.
parseHostUrl(url, host) ==
  IF startsWith(url, TxtHttps \o host \o <<"/">>)
       /\ ownerAndRepo(Drop(url, Len(TxtHttps \o host) + 1), TRUE) # Null
  THEN ownerAndRepo(Drop(url, Len(TxtHttps \o host) + 1), TRUE)
  ELSE IF startsWith(url, TxtHttp \o host \o <<"/">>)
       /\ ownerAndRepo(Drop(url, Len(TxtHttp \o host) + 1), TRUE) # Null
  THEN ownerAndRepo(Drop(url, Len(TxtHttp \o host) + 1), TRUE)
  ELSE IF startsWith(url, TxtGitAt \o host \o <<":">>)
  THEN ownerAndRepo(Drop(url, Len(TxtGitAt \o host) + 1), FALSE)
  ELSE Null

parseGitHubUrl(url) == parseHostUrl(url, TxtGithubCom)

parseBitbucketUrl(url) == parseHostUrl(url, TxtBitbucketOrg)

\* Lines 53-61: the base URL taken from the repository URL, <<>> when
\* neither pattern matches.
baseUrlOf(url) ==
  IF startsWith(url, TxtHttps) /\ RunLen(Drop(url, 8), NotSlash) >= 1
  THEN Take(url, 8 + RunLen(Drop(url, 8), NotSlash))
  ELSE IF startsWith(url, TxtHttp) /\ RunLen(Drop(url, 7), NotSlash) >= 1
  THEN Take(url, 7 + RunLen(Drop(url, 7), NotSlash))
  ELSE IF startsWith(url, TxtGitAt) /\ RunLen(Drop(url, 4), AsciiSet \ {":"}) >= 1
  THEN TxtHttps \o SubSeq(url, 5, 4 + RunLen(Drop(url, 4), AsciiSet \ {":"}))
  ELSE <<>>

\* Lines 68-82 for the base URL base.
parseGiteaPath(url, base) ==
  CHOOSE parsed \in
    { IF found = Null THEN Null
      ELSE [owner |-> found.owner, repo |-> found.repo, baseUrl |-> base] :
        found \in
          { ownerAndRepo(
              stripPrefix(
                stripPrefix(
                  removeFirst(stripPrefix(stripProtocol(url), TxtGitAt), stripProtocol(base)),
                  <<":">>),
                <<"/">>),
              TRUE) } } : TRUE

parseGiteaUrl(url, baseUrl) ==
  CHOOSE parsed \in
    { IF base = <<>> THEN Null ELSE parseGiteaPath(url, base) :
        base \in { IF Given(baseUrl) THEN baseUrl.text ELSE baseUrlOf(url) } } : TRUE

detectPlatformFromUrl(url) ==
  IF includes(url, TxtGithubCom) THEN <<"g","i","t","h","u","b">>
  ELSE IF includes(url, TxtBitbucketOrg) THEN <<"b","i","t","b","u","c","k","e","t">>
  ELSE <<"g","i","t","e","a">>

\* The working directory of the process, and path.resolve(cwd, repository)
\* for a relative path without "." or ".." segments.
Cwd == <<"/","w">>
resolvePath(repository) ==
  IF repository[1] = "/" THEN repository ELSE Cwd \o <<"/">> \o repository

\* The configurations and the failure of detectRepository.
RemoteConfig(platform, owner, repoName, baseUrl, token, ignoreCertErrors) ==
  [ type |-> "remote", platform |-> platform, owner |-> owner, repo |-> repoName,
    baseUrl |-> baseUrl, token |-> token, ignoreCertErrors |-> ignoreCertErrors ]
LocalConfig(path) == [ type |-> "local", path |-> path ]
DetectFailure(message) == [ type |-> "threw", message |-> message ]

\* Lines 159-217: a repository input that is not empty.
detectFromRepository(repository, baseUrl, finalToken, ignoreCertErrors) ==
  IF ~isUrl(repository) THEN LocalConfig(resolvePath(repository))
  ELSE IF detectPlatformFromUrl(repository) = <<"g","i","t","h","u","b">>
  THEN CHOOSE detected \in
         { IF parsed = Null
           THEN DetectFailure(TxtFailedToParse \o TxtGitHub \o TxtUrlColon \o repository)
           ELSE RemoteConfig(<<"g","i","t","h","u","b">>, Input(parsed.owner), Input(parsed.repo),
                             NoInput, finalToken, ignoreCertErrors) :
             parsed \in { parseGitHubUrl(repository) } } : TRUE
  ELSE IF detectPlatformFromUrl(repository) = <<"b","i","t","b","u","c","k","e","t">>
  THEN CHOOSE detected \in
         { IF parsed = Null
           THEN DetectFailure(TxtFailedToParse \o TxtBitbucket \o TxtUrlColon \o repository)
           ELSE RemoteConfig(<<"b","i","t","b","u","c","k","e","t">>, Input(parsed.owner), Input(parsed.repo),
                             NoInput, finalToken, ignoreCertErrors) :
             parsed \in { parseBitbucketUrl(repository) } } : TRUE
  ELSE CHOOSE detected \in
         { IF parsed = Null
           THEN DetectFailure(TxtFailedToParse \o TxtGitea \o TxtUrlColon \o repository)
           ELSE RemoteConfig(<<"g","i","t","e","a">>, Input(parsed.owner), Input(parsed.repo),
                             Input(parsed.baseUrl), finalToken, ignoreCertErrors) :
             parsed \in { parseGiteaUrl(repository, baseUrl) } } : TRUE

\* Lines 221-232: the GitHub Actions context.
detectFromEnvironment(githubRepo, finalToken, ignoreCertErrors) ==
  CHOOSE detected \in
    { RemoteConfig(<<"g","i","t","h","u","b">>, Input(parts[1]),
                   IF Len(parts) >= 2 THEN Input(parts[2]) ELSE NoInput,
                   NoInput, finalToken, ignoreCertErrors) :
        parts \in { split(githubRepo, "/") } } : TRUE

\* Line 137: token || process.env.GITHUB_TOKEN
finalToken(token, env) == IF Given(token) THEN token ELSE env.GITHUB_TOKEN

\* detectRepository that looks at the repository input first.
detectRepositoryRepositoryFirst(repository, platform, owner, repoName, baseUrl, token, ignoreCertErrors, env) ==
  IF Given(repository)
  THEN detectFromRepository(repository.text, baseUrl, finalToken(token, env),
                            ignoreCertErrors)
  ELSE IF Given(platform) /\ Given(owner) /\ Given(repoName)
  THEN IF toLowerCase(platform.text) \notin PlatformValues
       THEN DetectFailure(TxtUnsupportedPlatform \o platform.text \o TxtSupported)
       ELSE RemoteConfig(toLowerCase(platform.text), owner, repoName,
                         IF Given(baseUrl) THEN baseUrl ELSE NoInput,
                         finalToken(token, env), ignoreCertErrors)
  ELSE IF Given(env.GITHUB_REPOSITORY)
  THEN detectFromEnvironment(env.GITHUB_REPOSITORY.text, finalToken(token, env),
                             ignoreCertErrors)
  ELSE DetectFailure(TxtRepositoryNotSpecified)

detectRepository(repository, platform, owner, repoName, baseUrl, token, ignoreCertErrors, env) ==
  IF Given(platform) /\ Given(owner) /\ Given(repoName)
  THEN IF toLowerCase(platform.text) \notin PlatformValues
       THEN DetectFailure(TxtUnsupportedPlatform \o platform.text \o TxtSupported)
       ELSE RemoteConfig(toLowerCase(platform.text), owner, repoName,
                         IF Given(baseUrl) THEN baseUrl ELSE NoInput,
                         finalToken(token, env), ignoreCertErrors)
  ELSE IF Given(repository)
  THEN detectFromRepository(repository.text, baseUrl, finalToken(token, env),
                            ignoreCertErrors)
  ELSE IF Given(env.GITHUB_REPOSITORY)
  THEN detectFromEnvironment(env.GITHUB_REPOSITORY.text, finalToken(token, env),
                             ignoreCertErrors)
  ELSE DetectFailure(TxtRepositoryNotSpecified)

(***************************************************************************)
(* detectRepository called directly                                        *)
(***************************************************************************)

\* Repository inputs: none, the empty string, URLs of each platform in the
\* http(s) and the git@ form that parse and that do not, and strings that
\* are no URL: paths, a URL without its protocol and one in capitals.
RepositoryInputs ==
  { NoInput, Input(<<>>),
    Input(<<"h","t","t","p","s",":","/","/","g","i","t","h","u","b",".","c","o","m","/","o","/","r">>),
    Input(<<"h","t","t","p",":","/","/","g","i","t","h","u","b",".","c","o","m","/","o","/","r",".","g","i","t">>),
    Input(<<"g","i","t","@","g","i","t","h","u","b",".","c","o","m",":","o","/","r",".","g","i","t">>),
    Input(<<"h","t","t","p","s",":","/","/","g","i","t","h","u","b",".","c","o","m","/","o">>),
    Input(<<"h","t","t","p","s",":","/","/","b","i","t","b","u","c","k","e","t",".","o","r","g","/","o","/","r","/","s","r","c">>),
    Input(<<"g","i","t","@","b","i","t","b","u","c","k","e","t",".","o","r","g",":","o","/","r","/","s","r","c">>),
    Input(<<"h","t","t","p","s",":","/","/","g",".","i","o","/","o","/","r">>),
    Input(<<"g","i","t","@","g",".","i","o",":","o","/","r",".","g","i","t">>),
    Input(<<"h","t","t","p","s",":","/","/","g",".","i","o">>),
    Input(<<"g","i","t","@">>),
    Input(<<"h","t","t","p","s",":","/","/","g",".","i","o","/","g","i","t","h","u","b",".","c","o","m">>),
    Input(<<"/","s","r","v","/","r">>),
    Input(<<"r">>),
    Input(<<"g","i","t","h","u","b",".","c","o","m","/","o","/","r">>),
    Input(<<"H","T","T","P","S",":","/","/","g","i","t","h","u","b",".","c","o","m","/","o","/","r">>) }

PlatformInputs ==
  { NoInput, Input(<<"g","i","t","h","u","b">>), Input(<<"G","i","t","H","u","b">>), Input(<<"g","i","t","e","a">>),
    Input(<<"b","i","t","b","u","c","k","e","t">>), Input(<<"g","i","t","l","a","b">>) }
OwnerInputs == { NoInput, Input(<<"o","2">>) }
RepoInputs == { NoInput, Input(<<"r","2">>) }
BaseUrlInputs == { NoInput, Input(<<"h","t","t","p","s",":","/","/","b",".","i","o">>) }
TokenInputs == { NoInput, Input(<<>>), Input(<<"t">>) }

Environments ==
  [ GITHUB_TOKEN : { NoInput, Input(<<"e">>) },
    GITHUB_REPOSITORY : { NoInput, Input(<<"o","3","/","r","3">>), Input(<<"o","3">>) } ]

DetectorCalls ==
  { [fn |-> "detectRepository",
     args |-> <<repository, platform, owner, repoName, baseUrl, token, FALSE>>,
     env |-> env] :
      repository \in RepositoryInputs, platform \in PlatformInputs, owner \in OwnerInputs,
      repoName \in RepoInputs, baseUrl \in BaseUrlInputs, token \in TokenInputs,
      env \in Environments }

DetectorInit ==
  /\ ResolverIdle
  /\ call \in DetectorCalls
  /\ returned = NotReturned

CallDetectRepository ==
  /\ call.fn = "detectRepository"
  /\ ~returned.done
  /\ returned' = ReturnedValue(detectRepository(call.args[1], call.args[2], call.args[3],
                                                call.args[4], call.args[5], call.args[6],
                                                call.args[7], call.env))
  /\ UNCHANGED << call, resolverVars >>

DetectorNext == CallDetectRepository

DetectorSpec == DetectorInit /\ [][DetectorNext]_vars


(***************************************************************************)
(* Properties of detectRepository                                          *)
(***************************************************************************)

Detected == call.fn = "detectRepository" /\ returned.done

\* The start of the message for a missing repository.
TxtNotSpecifiedHead ==
  <<"R","e","p","o","s","i","t","o","r","y"," ","n","o","t"," ",
    "s","p","e","c","i","f","i","e","d">>

\* C23: with platform, owner and repo all given the configuration is remote
\* with these values, or the call fails for an unknown platform, whatever
\* the repository input is; else with a repository input the configuration
\* is remote or the call fails to parse when the input starts with http://,
\* https:// or git@, and is local otherwise; else with GITHUB_REPOSITORY set
\* the configuration is the GitHub repository it names; else the call fails
\* with 'Repository not specified'.  The token of a remote configuration is
\* the token argument when one is given, else GITHUB_TOKEN.
C23_Precedence ==
  Detected =>
    LET repository == call.args[1]
        platform == call.args[2]
        owner == call.args[3]
        repoName == call.args[4]
        token == call.args[6]
        result == returned.value
    IN /\ IF Given(platform) /\ Given(owner) /\ Given(repoName)
          THEN IF toLowerCase(platform.text) \in PlatformValues
               THEN /\ result.type = "remote"
                    /\ result.platform = toLowerCase(platform.text)
                    /\ result.owner = owner
                    /\ result.repo = repoName
               ELSE /\ result.type = "threw"
                    /\ startsWith(result.message, TxtUnsupportedPlatform)
          ELSE IF Given(repository)
          THEN IF \/ startsWith(repository.text, <<"h","t","t","p",":","/","/">>)
                  \/ startsWith(repository.text, <<"h","t","t","p","s",":","/","/">>)
                  \/ startsWith(repository.text, <<"g","i","t","@">>)
               THEN \/ result.type = "remote"
                    \/ /\ result.type = "threw"
                       /\ startsWith(result.message, TxtFailedToParse)
               ELSE result.type = "local"
          ELSE IF Given(call.env.GITHUB_REPOSITORY)
          THEN /\ result.type = "remote"
               /\ result.platform = <<"g","i","t","h","u","b">>
               /\ startsWith(call.env.GITHUB_REPOSITORY.text, result.owner.text)
          ELSE /\ result.type = "threw"
               /\ startsWith(result.message, TxtNotSpecifiedHead)
       /\ result.type = "remote" =>
            result.token = IF Given(token) THEN token ELSE call.env.GITHUB_TOKEN

\* Separate inputs and a token given together with a repository URL of
\* another platform, GITHUB_REPOSITORY and GITHUB_TOKEN: the separate inputs
\* and the token argument are used.
C23_Witness ==
  /\ Detected
  /\ call.args[1] = Input(<<"h","t","t","p","s",":","/","/","g",".","i","o","/","o","/","r">>)
  /\ call.args[2] = Input(<<"G","i","t","H","u","b">>)
  /\ Given(call.args[3])
  /\ Given(call.args[4])
  /\ call.args[6] = Input(<<"t">>)
  /\ Given(call.env.GITHUB_TOKEN)
  /\ Given(call.env.GITHUB_REPOSITORY)
  /\ returned.value.type = "remote"
  /\ returned.value.platform = <<"g","i","t","h","u","b">>
  /\ returned.value.owner = call.args[3]
  /\ returned.value.token = Input(<<"t">>)


(***************************************************************************)
(* src/unnamed/part_008 (index.ts): the action entry point run             *)
(***************************************************************************)

TxtLatest == <<"l","a","t","e","s","t">>
TxtTagsType == <<"t","a","g","s">>
TxtReleaseType == <<"r","e","l","e","a","s","e">>

\* `Input required and not supplied: ` (core.getInput with required: true)
TxtInputRequired ==
  <<"I","n","p","u","t"," ","r","e","q","u","i","r","e","d"," ","a","n","d",
    " ","n","o","t"," ","s","u","p","p","l","i","e","d",":"," ">>

\* `Input does not meet YAML 1.2 "Core Schema" specification: `
\* (core.getBooleanInput; the name of the input and the accepted values
\* follow)
TxtNotBoolean ==
  <<"I","n","p","u","t"," ","d","o","e","s"," ","n","o","t"," ","m","e","e",
    "t"," ","Y","A","M","L"," ","1",".","2"," ","\"","C","o","r","e"," ","S",
    "c","h","e","m","a","\""," ","s","p","e","c","i","f","i","c","a","t","i",
    "o","n",":"," ">>

\* `Invalid tag_type: `, `. Must be 'tags' or 'release'`
TxtInvalidTagType ==
  <<"I","n","v","a","l","i","d"," ","t","a","g","_","t","y","p","e",":"," ">>

TxtMustBeTagsOrRelease ==
  <<"."," ","M","u","s","t"," ","b","e"," ","'","t","a","g","s","'"," ","o",
    "r"," ","'","r","e","l","e","a","s","e","'">>

\* The message of an error of getItemInfoFromRepo.
TxtInfoFailed == <<"N","o","t"," ","F","o","u","n","d">>

\* The values core.getBooleanInput accepts.
BooleanTexts ==
  { <<"t","r","u","e">>, <<"T","r","u","e">>, <<"T","R","U","E">>, <<"f","a","l","s","e">>, <<"F","a","l","s","e">>, <<"F","A","L","S","E">> }

\* value || undefined for the string an input was read as.
OrUndefined(text) == IF text = <<>> THEN NoInput ELSE Input(text)

\* The outputs run sets (lines 183-193).
OutputNames ==
  { "exists", "name", "item_sha", "item_sha_short", "item_type", "commit_sha",
    "commit_sha_short", "details", "verified", "is_draft", "is_prerelease" }

\* Lines 121-164: what run has when it is about to look at the tag name, or
\* the message of the first error thrown before that.
RunReady(tagType, tagFormat, repoConfig) ==
  [ threw |-> FALSE, message |-> <<>>, tagType |-> tagType, tagFormat |-> tagFormat,
    repoConfig |-> repoConfig ]
RunThrew(message) ==
  [ threw |-> TRUE, message |-> message, tagType |-> <<>>, tagFormat |-> NoFiltering,
    repoConfig |-> LocalConfig(<<>>) ]

\* Lines 156-164.
runDetect(inputs, env, tagType, tagFormat) ==
  CHOOSE ready \in
    { IF repoConfig.type = "threw" THEN RunThrew(repoConfig.message)
      ELSE RunReady(tagType, tagFormat, repoConfig) :
        repoConfig \in
          { detectRepository(Input(inputs.repository), Input(inputs.platform),
                             Input(inputs.owner), Input(inputs.repo),
                             Input(inputs.base_url),
                             IF inputs.token # <<>> THEN Input(inputs.token)
                             ELSE env.GITHUB_TOKEN,
                             inputs.ignore_cert_errors \in { <<"t","r","u","e">>, <<"T","r","u","e">>, <<"T","R","U","E">> },
                             env) } } : TRUE

\* Lines 133-140.
runValidate(inputs, env, tagType, tagFormat) ==
  IF inputs.verbose \notin BooleanTexts
  THEN RunThrew(TxtNotBoolean \o <<"v","e","r","b","o","s","e">>)
  ELSE IF tagType # TxtTagsType /\ tagType # TxtReleaseType
  THEN RunThrew(TxtInvalidTagType \o tagType \o TxtMustBeTagsOrRelease)
  ELSE runDetect(inputs, env, tagType, tagFormat)

\* Lines 121-132.
runInputs(inputs, env) ==
  IF inputs.tag_name = <<>> THEN RunThrew(TxtInputRequired \o <<"t","a","g","_","n","a","m","e">>)
  ELSE IF inputs.ignore_cert_errors \notin BooleanTexts
  THEN RunThrew(TxtNotBoolean \o <<"i","g","n","o","r","e","_","c","e","r","t","_","e","r","r","o","r","s">>)
  ELSE CHOOSE ready \in
    { IF tagFormat.kind = "threw" THEN RunThrew(tagFormat.value)
      ELSE runValidate(inputs, env,
                       IF inputs.tag_type = <<>> THEN TxtTagsType ELSE inputs.tag_type,
                       tagFormat) :
        tagFormat \in { parseTagFormat(OrUndefined(inputs.tag_format)) } } : TRUE

\* The configuration of resolveLatestTag for a RepoConfig and a tag type.
resolverConfig(repoConfig, tagType) ==
  [ type |-> repoConfig.type,
    platform |-> IF repoConfig.type = "local" THEN "none"
                 ELSE IF repoConfig.platform = <<"g","i","t","h","u","b">> THEN "github"
                 ELSE IF repoConfig.platform = <<"g","i","t","e","a">> THEN "gitea"
                 ELSE "bitbucket",
    itemType |-> IF tagType = TxtReleaseType THEN "release" ELSE "tags" ]

\* The progress and the effects of a run: where it is (at), the name the
\* information is fetched for, the messages given to core.setFailed, the
\* names getItemInfoFromRepo was called with, the outputs set, and the
\* number of calls of resolveLatestTag.
RunState(at, name, failures, infoRequests, outputs, resolverCalls) ==
  [ done |-> at = "ended",
    value |-> [ at |-> at, name |-> name, failures |-> failures,
                infoRequests |-> infoRequests, outputs |-> outputs,
                resolverCalls |-> resolverCalls ] ]

\* The inputs as core.getInput returns them (trimmed, '' when not given).
RunInputs ==
  [ tag_name : { <<>>, <<"l","a","t","e","s","t">>, <<"L","a","T","e","S","t">>, <<"l","a","t","e","s","t","s">>, Tag_1_2_0 },
    tag_type : { <<>>, <<"t","a","g","s">>, <<"r","e","l","e","a","s","e">>, <<"T","a","g","s">> },
    repository : { <<>>, <<"h","t","t","p","s",":","/","/","g","i","t","h","u","b",".","c","o","m","/","o","/","r">>, <<"h","t","t","p","s",":","/","/","g","i","t","h","u","b",".","c","o","m","/","o">>,
                   <<"/","s","r","v","/","r">> },
    platform : { <<>> },
    owner : { <<>> },
    repo : { <<>> },
    base_url : { <<>> },
    token : { <<>> },
    ignore_cert_errors : { <<"f","a","l","s","e">>, <<"m","a","y","b","e">> },
    tag_format : { <<>>, Pat_XX, Pat_XX \o <<",">> \o Pat_W3, <<"[","]">> },
    verbose : { <<"f","a","l","s","e">>, <<"m","a","y","b","e">> } ]

RunEnvironments ==
  [ GITHUB_TOKEN : { NoInput },
    GITHUB_REPOSITORY : { NoInput, Input(<<"o","3","/","r","3">>) } ]

RunCalls ==
  { [fn |-> "run", args |-> <<inputs>>, env |-> env] :
      inputs \in RunInputs, env \in RunEnvironments }

RunInit ==
  /\ ResolverIdle
  /\ call \in RunCalls
  /\ returned = RunState("inputs", <<>>, <<>>, <<>>, {}, 0)

\* run in which only the spelling 'latest' is resolved.
RunStartCaseSensitive ==
  /\ call.fn = "run"
  /\ returned.value.at = "inputs"
  /\ \E ready \in { runInputs(call.args[1], call.env) } :
       IF ready.threw
       THEN /\ returned' = RunState("ended", <<>>, <<ready.message>>, <<>>, {}, 0)
            /\ UNCHANGED resolverVars
       ELSE IF call.args[1].tag_name = TxtLatest
       THEN /\ returned' = RunState("resolving", <<>>, <<>>, <<>>, {}, 1)
            /\ config' = resolverConfig(ready.repoConfig, ready.tagType)
            /\ formatPatterns' = IF ready.tagFormat.kind = "patterns"
                                 THEN [defined |-> TRUE, list |-> ready.tagFormat.value]
                                 ELSE NoFormat
            /\ repo' \in { r \in SeqsOf(TagUniverse, 0, MaxTags) : NoDuplicates(r) }
            /\ pc' = "start"
            /\ UNCHANGED << itemNames, filteredItemNames, allItems, filteredItems, i,
                            attemptedPatterns, outcome, warnings, fetches, evaluations >>
       ELSE /\ returned' = RunState("info", call.args[1].tag_name, <<>>, <<>>, {}, 0)
            /\ UNCHANGED resolverVars
  /\ UNCHANGED call

\* Lines 119-175: from the inputs to the call of resolveLatestTag, to the
\* name to fetch, or to the catch block.
RunStart ==
  /\ call.fn = "run"
  /\ returned.value.at = "inputs"
  /\ \E ready \in { runInputs(call.args[1], call.env) } :
       IF ready.threw
       THEN /\ returned' = RunState("ended", <<>>, <<ready.message>>, <<>>, {}, 0)
            /\ UNCHANGED resolverVars
       ELSE IF toLowerCase(call.args[1].tag_name) = TxtLatest
       THEN /\ returned' = RunState("resolving", <<>>, <<>>, <<>>, {}, 1)
            /\ config' = resolverConfig(ready.repoConfig, ready.tagType)
            /\ formatPatterns' = IF ready.tagFormat.kind = "patterns"
                                 THEN [defined |-> TRUE, list |-> ready.tagFormat.value]
                                 ELSE NoFormat
            /\ repo' \in { r \in SeqsOf(TagUniverse, 0, MaxTags) : NoDuplicates(r) }
            /\ pc' = "start"
            /\ UNCHANGED << itemNames, filteredItemNames, allItems, filteredItems, i,
                            attemptedPatterns, outcome, warnings, fetches, evaluations >>
       ELSE /\ returned' = RunState("info", call.args[1].tag_name, <<>>, <<>>, {}, 0)
            /\ UNCHANGED resolverVars
  /\ UNCHANGED call

\* Line 173: resolveLatestTag has returned a name or thrown.
RunResolved ==
  /\ call.fn = "run"
  /\ returned.value.at = "resolving"
  /\ pc = "done"
  /\ returned' =
       IF outcome.kind = "threw"
       THEN RunState("ended", <<>>, <<outcome.value>>, <<>>, {},
                     returned.value.resolverCalls)
       ELSE RunState("info", outcome.value, <<>>, <<>>, {}, returned.value.resolverCalls)
  /\ UNCHANGED << call, resolverVars >>

\* Lines 180-224: getItemInfoFromRepo returns the information, which is set
\* as outputs, or throws.
RunInfo ==
  /\ call.fn = "run"
  /\ returned.value.at = "info"
  /\ \E threw \in BOOLEAN :
       returned' =
         RunState("ended", returned.value.name,
                  IF threw THEN <<TxtInfoFailed>> ELSE <<>>,
                  <<returned.value.name>>,
                  IF threw THEN {} ELSE OutputNames,
                  returned.value.resolverCalls)
  /\ UNCHANGED << call, resolverVars >>

RunNext ==
  \/ RunStart
  \/ RunResolved
  \/ RunInfo
  \/ Next

RunSpec == RunInit /\ [][RunNext]_vars


(***************************************************************************)
(* Properties of run                                                       *)
(***************************************************************************)

\* name is 'latest' in any mix of capitals and small letters.
CaseInsensitiveLatest(name) ==
  /\ Len(name) = 6
  /\ \A k \in 1..6 :
       name[k] \in { <<"l","a","t","e","s","t">>[k], <<"L","A","T","E","S","T">>[k] }

\* C28: run calls resolveLatestTag at most once, and only for a tag_name
\* that is 'latest' in any capitals; it does call it for such a name once the
\* inputs are read and the repository is detected without error; the
\* information is fetched at most once, for tag_name itself when that is not
\* 'latest' and for the resolved name when it is; and when reading the
\* inputs, detecting the repository or resolving fails, the run ends with
\* one call of setFailed, carrying the message of the error, no fetch of
\* information and no output.
C28_LatestOnlyAndSingleFailure ==
  call.fn = "run" =>
    LET run == returned.value
        tagName == call.args[1].tag_name
        ready == runInputs(call.args[1], call.env)
        resolved == pc # "idle"
    IN /\ run.resolverCalls = (IF resolved THEN 1 ELSE 0)
       /\ resolved => CaseInsensitiveLatest(tagName) /\ ~ready.threw
       /\ (CaseInsensitiveLatest(tagName) /\ ~ready.threw /\ run.at # "inputs") => resolved
       /\ Len(run.infoRequests) <= 1
       /\ Len(run.failures) <= 1
       /\ (run.at = "info" \/ run.infoRequests # <<>>) =>
            /\ run.infoRequests \in { <<>>, <<run.name>> }
            /\ run.name = IF CaseInsensitiveLatest(tagName) THEN outcome.value ELSE tagName
            /\ CaseInsensitiveLatest(tagName) => outcome.kind = "returned"
       /\ (ready.threw \/ outcome.kind = "threw") =>
            /\ run.at # "info"
            /\ run.infoRequests = <<>>
            /\ run.outputs = {}
            /\ run.at = "ended" =>
                 run.failures = << IF ready.threw THEN ready.message ELSE outcome.value >>

\* A run for 'LaTeSt' with a format, whose resolution failed: one failure
\* with the resolver's message and nothing else.
C28_Witness ==
  /\ call.fn = "run"
  /\ call.args[1].tag_name = <<"L","a","T","e","S","t">>
  /\ formatPatterns.defined
  /\ repo # <<>>
  /\ outcome.kind = "threw"
  /\ returned.done
  /\ returned.value.failures = << outcome.value >>
  /\ returned.value.infoRequests = <<>>
  /\ returned.value.outputs = {}

=============================================================================
